---- MODULE Spec2Model ----
(***************************************************************************)
(* State-machine model of the template registry, the merged-tile cache and *)
(* the tile compositor of TemplateManager (src/src/templateManager.js).    *)
(*                                                                         *)
(* JavaScript runs one task at a time; an async method runs without        *)
(* interruption from one await to the next.  Every action below is one     *)
(* such uninterrupted run: a synchronous handler as a whole, or the part   *)
(* of an async method between two awaits.                                  *)
(***************************************************************************)
EXTENDS Integers, Sequences, FiniteSets, TLC

\* ------------------------------------------------------------- bounds
\* this.maxTemplates is 10 in the constructor (templateManager.js:70); the
\* model runs the same code with a smaller capacity.
maxTemplates == 2
\* Number of calls and events the environment makes in one run (calls of
\* createTemplate, importJSON, setTemplateEnabled, removeTemplate,
\* drawTemplateOnTile and the setters, zoom events, canvas scale changes).
\* It also caps cacheVersion, which grows by at most one per call.
MaxCalls == 4
\* Largest width and height of a sliced image, largest pixel offset of its
\* anchor and largest tileSize (1000 in the Template constructor)
MaxSide == 4
MaxOffset == 2
MaxTileSize == 3
\* Number of palette entries after Transparent, and the largest region-local
\* coordinate of a converted pixel
MaxPalette == 3
MaxLocal == 1
\* Largest number of blocks in a row of a chunk bitmap, and of calls of
\* #ensureIndexMapForTemplateTile for one key
MaxBlocks == 2
MaxEnsure == 2

\* --------------------------------------------------- program constants
\* this.zoomOutThreshold = 0.75, in hundredths of a zoom level
zoomOutThreshold == 75
\* numberToEncoded(this.userID || 0, this.encodingBase): userID stays null,
\* and 0 encodes to the first character of encodingBase
CreatedAuthorID == "!"
\* this.name.replace(' ', '') of "Thanks to Brioche" (the first space only),
\* the whoami tag createJSON writes
ScriptWhoami == "Thanksto Brioche"
\* tileSize = 1000, the default of the Template constructor
DefaultTileSize == 1000
\* The literal 1000 that the tile key is computed with
KeyTileSize == 1000
\* this.drawMult = 3
drawMult == 3

\* ------------------------------------------------------ input domains
\* Tiles a draw can be requested for: [tileX, tileY]
TileCoords == {<<0, 0>>, <<1, 0>>}
\* Tile keys "TTTT,TTTT,PPP,PPP" as <<tileX, tileY, pixelX, pixelY>>.  The
\* key sets that slicing an uploaded image yields (one region each here).
SlicedKeySets == {{<<0, 0, 0, 0>>}, {<<1, 0, 5, 5>>}}
\* The images: "A" and "B" are uploaded and slice to the two key sets, "C" and
\* "D" are the bitmaps of the two records of the exported JSON
ImageOfKeys(keys) == IF keys = {<<0, 0, 0, 0>>} THEN "A" ELSE "B"
\* Pixel coordinates within a tile that a click can have: [pxX, pxY]
PixelCoords == {<<0, 0>>, <<1, 0>>, <<2, 0>>, <<5, 5>>}
\* A template key "<sortID> <authorID>" as <<sortID, authorID>>
KeyInputs == {<<n, CreatedAuthorID>> : n \in 0..(maxTemplates - 1)}
CreateCalls == {1, 2}
DrawCalls == {1}
\* An optional number: t = "null" (null/undefined), "nan" (NaN) or "num" (v)
Null == [t |-> "null", v |-> 0]
NaN == [t |-> "nan", v |-> 0]
Num(n) == [t |-> "num", v |-> n]
\* Canvas CSS scale returned by #getCanvasScale: null (no canvas), 1 or 2
CanvasScales == {Null, Num(1), Num(2)}
\* event.detail.zoom of a 'zoom' event, in hundredths of a zoom level;
\* Null stands for an event without a numeric detail (move, resize)
EventZooms == {Null, NaN, Num(0), Num(100)}
\* Kinds of events recorded for the cache-coherency claims: a template
\* added, removed, an enabled flag changed, the color mode changed, the zoom
\* mode flipped; and the calls removeTemplate and setTemplateEnabled as such
EventKinds == {"add", "remove", "removeCall", "enable", "enableCall", "color", "zoom"}

VARIABLES
  templatesArray,   \* this.templatesArray: sequence of Template records
  templatesJSON,    \* this.templatesJSON: [isNull, whoami, templates]
  stored,           \* value last handed to GM.setValue('bmTemplates', ...)
  cacheVersion,     \* this.cacheVersion
  mergedTileCache,  \* this.mergedTileCache: function cache key -> entry
  autoColorLive,    \* this.autoColorLive
  templatesShouldBeDrawn, \* this.templatesShouldBeDrawn
  zoomLevel,        \* this.zoomLevel: optional number, hundredths of a level
  isZoomedOut,      \* this.isZoomedOut
  canvasScale,      \* CSS transform scale of the main canvas (environment)
  create,           \* createTemplate calls in flight
  import,           \* the importJSON call in flight
  draw,             \* drawTemplateOnTile calls in flight
  lastDraw,         \* the drawTemplateOnTile call that returned last
  op,               \* the step taken last
  calls,            \* number of calls and events so far
  slice,            \* a createTemplateTiles run: its inputs, loop variables, regions
  pix,              \* one pixel of a region in the per-pixel loop of createTemplateTiles
  tpl,              \* a template whose index grids are rebuilt lazily
  match             \* a tile and a chunk key in the prefix test of the lookups

vars == <<templatesArray, templatesJSON, stored, cacheVersion, mergedTileCache,
          autoColorLive, templatesShouldBeDrawn, zoomLevel, isZoomedOut,
          canvasScale, create, import, draw, lastDraw, op, calls, slice, pix, tpl, match>>

\* The fields of the TemplateManager and its calls in flight
managerVars == <<templatesArray, templatesJSON, stored, cacheVersion, mergedTileCache,
                 autoColorLive, templatesShouldBeDrawn, zoomLevel, isZoomedOut,
                 canvasScale, create, import, draw, lastDraw, op, calls>>

\* ------------------------------------------------------------ helpers
Range(s) == {s[i] : i \in 1..Len(s)}

RECURSIVE SelectSeq2(_, _)
\* Array.prototype.filter on a sequence of records, by a set of kept positions
SelectSeq2(s, keep) ==
  IF s = <<>> THEN <<>>
  ELSE LET n == Len(s)
           front == SelectSeq2(SubSeq(s, 1, n - 1), keep)
       IN IF n \in keep THEN Append(front, s[n]) ELSE front

\* The events after which a composite no longer shows the registry
StaleKinds == {"add", "remove", "enable", "zoom"}
\* The events a cache entry keeps track of since its templates were chosen
SnapKinds == {"enableCall", "zoom"}

\* Records the events on every cache entry (bookkeeping for the claims):
\* evSnap = tracked events since the entry's templates were chosen,
\* stale = some registry-changing event happened since the entry was stored
MarkCache(cache, kinds) ==
  [k \in DOMAIN cache |->
     [cache[k] EXCEPT !.evSnap = @ \cup (kinds \cap SnapKinds),
                      !.stale = @ \/ (kinds \cap StaleKinds # {})]]

\* Records the events on every draw call in flight
MarkDraws(d, kinds) ==
  [x \in DOMAIN d |-> IF d[x].pc = "idle" THEN d[x]
                      ELSE [d[x] EXCEPT !.ev = @ \cup (kinds \cap SnapKinds),
                                        !.changed = TRUE]]

\* Records on the draw call that returned last that the state changed since
\* that call returned
MarkLast(l, kinds) == IF l.kind = "none" THEN l ELSE [l EXCEPT !.changed = TRUE]

EmptyCache == <<>>

\* ------------------------------------------------------ templatesJSON
NullJSON == [isNull |-> TRUE, whoami |-> "", templates |-> <<>>]

\* createJSON(): a fresh object with an empty templates map
createJSON == [isNull |-> FALSE, whoami |-> ScriptWhoami, templates |-> <<>>]

\* Object.keys(json.templates), in insertion order
JsonKeys(j) == [i \in 1..Len(j.templates) |-> j.templates[i].key]

\* json.templates[key] is present (and truthy)
JsonHas(j, key) == \E i \in 1..Len(j.templates) : j.templates[i].key = key

\* json.templates[rec.key] = rec: an existing key keeps its position
JsonPut(j, rec) ==
  IF JsonHas(j, rec.key)
    THEN [j EXCEPT !.templates =
            [i \in 1..Len(@) |-> IF @[i].key = rec.key THEN rec ELSE @[i]]]
    ELSE [j EXCEPT !.templates = Append(@, rec)]

\* A variant of the delete that leaves the record in place (C11 fails with it)
JsonDelete_Keep(j, key) == j

\* delete json.templates[key]
JsonDelete(j, key) ==
  [j EXCEPT !.templates =
     SelectSeq2(@, {i \in 1..Len(@) : @[i].key # key})]

\* json.templates[key].enabled = enabled
JsonSetEnabled(j, key, enabled) ==
  [j EXCEPT !.templates =
     [i \in 1..Len(@) |-> IF @[i].key = key
                            THEN [@[i] EXCEPT !.enabled = enabled] ELSE @[i]]]

\* --------------------------------------------------------- zoom state
\* Math.log2 of a canvas scale, in hundredths of a zoom level
Log2(s) == IF s = 1 THEN 0 ELSE 100

\* A variant of #updateZoomState that never reports a flip of the zoom mode,
\* so that no caller bumps cacheVersion or clears the cache (C9 fails with it)
updateZoomState_NoFlip(detailZoom, zl, izo, scale) ==
  LET z1 == IF detailZoom.t \in {"num", "nan"} THEN detailZoom ELSE zl
      z2 == IF z1.t \in {"null", "nan"}
              THEN (IF scale.t = "num" THEN Num(Log2(scale.v)) ELSE z1)
              ELSE z1
      newZl == IF z2.t = "num" THEN z2 ELSE zl
      newIzo == IF z2.t = "num" THEN (z2.v <= zoomOutThreshold) ELSE izo
  IN [zoomLevel |-> newZl, isZoomedOut |-> newIzo, changed |-> FALSE]

\* #updateZoomState(event): the new zoomLevel and isZoomedOut, and whether
\* the zoom mode changed (which bumps cacheVersion and clears the cache)
updateZoomState(detailZoom, zl, izo, scale) ==
  LET z1 == IF detailZoom.t \in {"num", "nan"} THEN detailZoom ELSE zl
      z2 == IF z1.t \in {"null", "nan"}
              THEN (IF scale.t = "num" THEN Num(Log2(scale.v)) ELSE z1)
              ELSE z1
      newZl == IF z2.t = "num" THEN z2 ELSE zl
      newIzo == IF z2.t = "num" THEN (z2.v <= zoomOutThreshold) ELSE izo
  IN [zoomLevel |-> newZl, isZoomedOut |-> newIzo, changed |-> (newIzo # izo)]

\* ---------------------------------------------------------- registry
\* x?.idKey || `${x?.sortID} ${x?.authorID}`: idKey is never empty here
KeyOf(t) == t.idKey

\* lowest non-negative integer that is no template's sortID
NextSortID(arr) ==
  LET used == {arr[i].sortID : i \in 1..Len(arr)}
  IN CHOOSE n \in 0..Len(arr) : n \notin used /\ \A m \in 0..(n - 1) : m \in used

NoKey == [tile |-> <<0, 0>>, color |-> "", zoom |-> "", v |-> 0]
NoBlob == [draws |-> <<>>, zoomedOut |-> FALSE]
NoRecord == [key |-> <<0, "">>, enabled |-> FALSE, tiles |-> {}, img |-> ""]
IdleCreate == [pc |-> "idle", sortID |-> 0, keys |-> {}]
IdleDraw == [pc |-> "idle", tile |-> <<0, 0>>, key |-> NoKey, toDraw |-> <<>>,
             blob |-> NoBlob, ev |-> {}, changed |-> FALSE]
IdleImport == [pc |-> "idle", cur |-> NoRecord, rest |-> <<>>, aliased |-> FALSE]
\* kind: "none" (no call returned yet), "off" (returned at line 262),
\* "tileBlob" (the supplied image returned at line 270 or 328), "cached"
\* (line 279) or "composed" (line 391)
NoDraw == [kind |-> "none", tile |-> <<0, 0>>, result |-> NoBlob,
           during |-> FALSE, changed |-> FALSE, hitEv |-> {}, hitStale |-> FALSE]

\* #storeTemplates(): JSON.stringify(this.templatesJSON) handed to GM.setValue
storeTemplates(j) == j

\* this.mergedTileCache.clear(), with the events `kinds` recorded on the
\* draw calls in flight and on the last draw
Cleared(kinds) ==
  /\ mergedTileCache' = EmptyCache
  /\ draw' = MarkDraws(draw, kinds)
  /\ lastDraw' = MarkLast(lastDraw, kinds)

\* No createTemplateTiles run is followed
IdleSlice == [pc |-> "idle", W |-> 0, H |-> 0, anchor |-> <<0, 0>>,
              coords |-> <<0, 0>>, tileSize |-> 0,
              pixelX |-> 0, pixelY |-> 0, regions |-> <<>>,
              maps |-> [templateTiles |-> {}, templateTilesAuto |-> {},
                        templateTilesFull |-> {}, templateTilesAutoFull |-> {},
                        templateTilesBuffers |-> {}, colorIndexTiles |-> {}]]

\* The TemplateManager after its constructor
ManagerInit ==
  /\ templatesArray = <<>>
  /\ templatesJSON = NullJSON
  /\ stored = NullJSON
  /\ cacheVersion = 0
  /\ mergedTileCache = EmptyCache
  /\ autoColorLive = TRUE
  /\ templatesShouldBeDrawn = TRUE
  /\ zoomLevel = Null
  /\ isZoomedOut = TRUE
  /\ canvasScale \in CanvasScales
  /\ create = [c \in CreateCalls |-> IdleCreate]
  /\ import = IdleImport
  /\ draw = [d \in DrawCalls |-> IdleDraw]
  /\ lastDraw = NoDraw
  /\ op = "step"
  /\ calls = 0

\* No pixel is being converted
IdlePixel == [pc |-> "idle"]
\* No template is being looked up
IdleTpl == [pc |-> "idle"]

\* No key is being tested
IdleMatch == [pc |-> "idle"]

Init ==
  ManagerInit /\ slice = IdleSlice /\ pix = IdlePixel /\ tpl = IdleTpl /\ match = IdleMatch

\* ---------------------------------------------------- createTemplate
\* A variant of the capacity check that rejects only above maxTemplates
\* (C5 fails with it)
CreateCheck_Above(c, keys, arr) ==
  IF Len(arr) > maxTemplates
    THEN /\ create' = [create EXCEPT ![c] = IdleCreate]
         /\ op' = "createRejected"
    ELSE /\ create' = [create EXCEPT ![c] =
                         [pc |-> "slice", sortID |-> NextSortID(arr), keys |-> keys]]
         /\ op' = "step"

\* Lines 161-184: the capacity check, the sortID and the start of slicing
CreateCheck(c, keys, arr) ==
  IF Len(arr) >= maxTemplates
    THEN /\ create' = [create EXCEPT ![c] = IdleCreate]
         /\ op' = "createRejected"
    ELSE /\ create' = [create EXCEPT ![c] =
                         [pc |-> "slice", sortID |-> NextSortID(arr), keys |-> keys]]
         /\ op' = "step"

\* The calls in flight are interchangeable: a new call takes the first free name
FirstIdle(cr) ==
  CHOOSE c \in CreateCalls :
    cr[c].pc = "idle" /\ \A o \in CreateCalls : cr[o].pc = "idle" => c <= o

\* createTemplate(blob, name, coords), up to its first await
CreateCall(c, keys) ==
  /\ create[c].pc = "idle"
  /\ c = FirstIdle(create)
  /\ IF templatesJSON.isNull
       THEN /\ create' = [create EXCEPT ![c] = [IdleCreate EXCEPT !.pc = "json", !.keys = keys]]
            /\ op' = "step"
       ELSE CreateCheck(c, keys, templatesArray)
  /\ UNCHANGED <<templatesArray, templatesJSON, stored, cacheVersion, mergedTileCache,
                 autoColorLive, templatesShouldBeDrawn, zoomLevel, isZoomedOut,
                 canvasScale, import, draw, lastDraw>>

\* Line 157 after `await this.createJSON()`, then lines 159-184
CreateAfterJSON(c) ==
  /\ create[c].pc = "json"
  /\ templatesJSON' = createJSON
  /\ import' = [import EXCEPT !.aliased = FALSE]
  /\ CreateCheck(c, create[c].keys, templatesArray)
  /\ UNCHANGED <<templatesArray, stored, cacheVersion, mergedTileCache,
                 autoColorLive, templatesShouldBeDrawn, zoomLevel, isZoomedOut,
                 canvasScale, draw, lastDraw>>

\* The Template built at lines 172-191
NewTemplate(sortID, keys) ==
  [sortID |-> sortID, authorID |-> CreatedAuthorID,
   idKey |-> <<sortID, CreatedAuthorID>>, enabled |-> TRUE,
   chunked |-> keys, sliced |-> TRUE, img |-> ImageOfKeys(keys)]

\* Lines 186-219 after `await template.createTemplateTiles(...)`
CreateRegister(c) ==
  /\ create[c].pc = "slice"
  /\ LET t == NewTemplate(create[c].sortID, create[c].keys)
         j == JsonPut(templatesJSON,
                      [key |-> t.idKey, enabled |-> TRUE, tiles |-> t.chunked,
                       img |-> t.img])
     IN /\ templatesJSON' = j
        /\ templatesArray' = Append(templatesArray, t)
        /\ stored' = storeTemplates(j)
  /\ cacheVersion' = cacheVersion + 1
  /\ Cleared({"add"})
  /\ create' = [create EXCEPT ![c] = IdleCreate]
  /\ op' = "step"
  /\ UNCHANGED <<autoColorLive, templatesShouldBeDrawn, zoomLevel, isZoomedOut,
                 canvasScale, import>>

\* A variant in which the JSON record is written before the image is
\* decoded (C26 fails with it)
CreateDecodeFail_RecordWritten(c) ==
  /\ create[c].pc = "slice"
  /\ templatesJSON' =
       JsonPut(templatesJSON,
               [key |-> <<create[c].sortID, CreatedAuthorID>>, enabled |-> TRUE,
                tiles |-> create[c].keys, img |-> ImageOfKeys(create[c].keys)])
  /\ create' = [create EXCEPT ![c] = IdleCreate]
  /\ op' = "createFailed"
  /\ UNCHANGED <<templatesArray, stored, cacheVersion, mergedTileCache,
                 autoColorLive, templatesShouldBeDrawn, zoomLevel, isZoomedOut,
                 canvasScale, import, draw, lastDraw>>

\* createImageBitmap(this.file) rejects inside createTemplateTiles (Template
\* line 95): createTemplate rejects at line 184
CreateDecodeFail(c) ==
  /\ create[c].pc = "slice"
  /\ create' = [create EXCEPT ![c] = IdleCreate]
  /\ op' = "createFailed"
  /\ UNCHANGED <<templatesArray, templatesJSON, stored, cacheVersion, mergedTileCache,
                 autoColorLive, templatesShouldBeDrawn, zoomLevel, isZoomedOut,
                 canvasScale, import, draw, lastDraw>>

\* ------------------------------------- setTemplateEnabled / removeTemplate
\* Array.prototype.find: the first position whose key matches, 0 if none
FindFirst(arr, idKey) ==
  IF \E i \in 1..Len(arr) : KeyOf(arr[i]) = idKey
    THEN CHOOSE i \in 1..Len(arr) :
           KeyOf(arr[i]) = idKey /\ \A k \in 1..(i - 1) : KeyOf(arr[k]) # idKey
    ELSE 0

\* The record the import in flight iterates over is json.templates[key] of
\* the object templatesJSON refers to, while the two are the same object
ImportSeesEnabled(imp, idKey, enabled) ==
  IF imp.pc # "idle" /\ imp.aliased /\ imp.cur.key = idKey
    THEN [imp EXCEPT !.cur.enabled = enabled]
    ELSE imp

\* Lines 809-816 of setTemplateEnabled: the template at position i was found
setTemplateEnabledAt(i, idKey, enabled) ==
  /\ templatesArray' = [templatesArray EXCEPT ![i].enabled = enabled]
  /\ LET has == JsonHas(templatesJSON, idKey)
         j == IF has THEN JsonSetEnabled(templatesJSON, idKey, enabled)
              ELSE templatesJSON
     IN /\ templatesJSON' = j
        /\ stored' = storeTemplates(j)
        /\ import' = IF has THEN ImportSeesEnabled(import, idKey, enabled)
                      ELSE import
  /\ cacheVersion' = cacheVersion + 1
  /\ Cleared(IF templatesArray[i].enabled # enabled
               THEN {"enable", "enableCall"} ELSE {"enableCall"})
  /\ op' = "setEnabled"

\* A variant of setTemplateEnabled that returns early when the flag already
\* has the value (C6 fails with it)
setTemplateEnabled_Guarded(idKey, enabled) ==
  LET i == FindFirst(templatesArray, idKey)
  IN IF i = 0 \/ templatesArray[i].enabled = enabled
       THEN /\ op' = IF i = 0 THEN "setEnabledMissing" ELSE "setEnabled"
            /\ UNCHANGED <<templatesArray, templatesJSON, stored, cacheVersion,
                           mergedTileCache, draw, lastDraw, import>>
       ELSE setTemplateEnabledAt(i, idKey, enabled)

\* A variant of setTemplateEnabled without the early return of line 808: for
\* an idKey no template has it still invalidates and stores (C35 fails with
\* it)
setTemplateEnabled_NoReturn(idKey, enabled) ==
  LET i == FindFirst(templatesArray, idKey)
  IN IF i = 0
       THEN /\ cacheVersion' = cacheVersion + 1
            /\ Cleared({"enableCall"})
            /\ stored' = storeTemplates(templatesJSON)
            /\ op' = "setEnabledMissing"
            /\ UNCHANGED <<templatesArray, templatesJSON, import>>
       ELSE setTemplateEnabledAt(i, idKey, enabled)

\* setTemplateEnabled(idKey, enabled), lines 806-817
setTemplateEnabled(idKey, enabled) ==
  LET i == FindFirst(templatesArray, idKey)
  IN IF i = 0
       THEN /\ op' = "setEnabledMissing"
            /\ UNCHANGED <<templatesArray, templatesJSON, stored, cacheVersion,
                           mergedTileCache, draw, lastDraw, import>>
       ELSE setTemplateEnabledAt(i, idKey, enabled)

SetTemplateEnabled(idKey, enabled) ==
  /\ setTemplateEnabled(idKey, enabled)
  /\ UNCHANGED <<autoColorLive, templatesShouldBeDrawn, zoomLevel, isZoomedOut,
                 canvasScale, create>>

\* A variant of removeTemplate that counts cacheVersion down (C8 fails with it)
removeTemplate_CountDown(idKey) ==
  LET kept == SelectSeq2(templatesArray,
                         {i \in 1..Len(templatesArray) : KeyOf(templatesArray[i]) # idKey})
      removed == Len(kept) # Len(templatesArray)
      j == IF removed /\ JsonHas(templatesJSON, idKey)
             THEN JsonDelete(templatesJSON, idKey) ELSE templatesJSON
  IN /\ templatesArray' = kept
     /\ templatesJSON' = j
     /\ cacheVersion' = cacheVersion - 1
     /\ Cleared(IF removed THEN {"remove", "removeCall"} ELSE {"removeCall"})
     /\ stored' = storeTemplates(j)
     /\ op' = IF removed THEN "removed" ELSE "removeMissing"

\* removeTemplate(idKey), lines 820-830
removeTemplate(idKey) ==
  LET kept == SelectSeq2(templatesArray,
                         {i \in 1..Len(templatesArray) : KeyOf(templatesArray[i]) # idKey})
      removed == Len(kept) # Len(templatesArray)
      j == IF removed /\ JsonHas(templatesJSON, idKey)
             THEN JsonDelete(templatesJSON, idKey) ELSE templatesJSON
  IN /\ templatesArray' = kept
     /\ templatesJSON' = j
     /\ cacheVersion' = cacheVersion + 1
     /\ Cleared(IF removed THEN {"remove", "removeCall"} ELSE {"removeCall"})
     /\ stored' = storeTemplates(j)
     /\ op' = IF removed THEN "removed" ELSE "removeMissing"

RemoveTemplate(idKey) ==
  /\ removeTemplate(idKey)
  /\ UNCHANGED <<autoColorLive, templatesShouldBeDrawn, zoomLevel, isZoomedOut,
                 canvasScale, create, import>>

\* ---------------------------------------------------------- importJSON
\* The objects importJSON is called with: what GM storage holds (main.js
\* 300-305), an export of another session, an object of another product
DocOther == [isNull |-> FALSE, whoami |-> "OtherScript",
             templates |-> <<[key |-> <<0, "!">>, enabled |-> TRUE,
                              tiles |-> {<<0, 0, 0, 0>>}, img |-> "C"]>>]
DocExport == [isNull |-> FALSE, whoami |-> "BlueMarble",
              templates |-> <<[key |-> <<1, "!">>, enabled |-> TRUE,
                               tiles |-> {<<0, 0, 0, 0>>}, img |-> "C"],
                              [key |-> <<0, "!">>, enabled |-> TRUE,
                               tiles |-> {<<0, 0, 0, 0>>}, img |-> "D"]>>]
ImportDocs == {DocOther, DocExport, stored}

\* A variant that accepts every object (C25 fails with it)
validWhoami_Any(json) == TRUE

\* Line 709
validWhoami(json) == json.whoami = "BlueMarble" \/ json.whoami = ScriptWhoami

\* for (const template in templates): the next key to visit.  A key deleted
\* from the object before it is reached is not visited.
RECURSIVE NextToVisit(_, _, _)
NextToVisit(rest, aliased, j) ==
  IF rest = <<>> THEN <<>>
  ELSE IF aliased /\ ~JsonHas(j, Head(rest).key)
         THEN NextToVisit(Tail(rest), aliased, j)
         ELSE rest

\* Lines 732-758 for the next key: the tile decoding awaits, or the loop ends
ImportAdvance(rest, aliased, j) ==
  LET r == NextToVisit(rest, aliased, j)
  IN IF r = <<>> THEN IdleImport
     ELSE [pc |-> "decode", cur |-> Head(r), rest |-> Tail(r), aliased |-> aliased]

\* importJSON(json) up to its first await
ImportCall(json) ==
  /\ import.pc = "idle"
  /\ IF validWhoami(json)
       THEN /\ templatesJSON' = json
            /\ import' = ImportAdvance(json.templates, TRUE, json)
            /\ op' = "step"
       ELSE /\ op' = "importIgnored"
            /\ UNCHANGED <<templatesJSON, import>>
  /\ UNCHANGED <<templatesArray, stored, cacheVersion, mergedTileCache,
                 autoColorLive, templatesShouldBeDrawn, zoomLevel, isZoomedOut,
                 canvasScale, create, draw, lastDraw>>

\* The Template built at lines 740-771 from a record of the JSON
ImportedTemplate(rec, arr) ==
  [sortID |-> IF rec.key[1] # 0 THEN rec.key[1] ELSE Len(arr),
   authorID |-> rec.key[2], idKey |-> rec.key, enabled |-> rec.enabled,
   chunked |-> rec.tiles, sliced |-> FALSE, img |-> rec.img]

\* Lines 760-775 after the tiles of one record were decoded, then the loop
\* goes on to the next record
ImportPush ==
  /\ import.pc = "decode"
  /\ IF Len(templatesArray) >= maxTemplates
       THEN /\ op' = "step"
            /\ UNCHANGED <<templatesArray, mergedTileCache, draw, lastDraw>>
       ELSE /\ templatesArray' =
                 Append(templatesArray, ImportedTemplate(import.cur, templatesArray))
            /\ mergedTileCache' = MarkCache(mergedTileCache, {"add"})
            /\ draw' = MarkDraws(draw, {"add"})
            /\ lastDraw' = MarkLast(lastDraw, {"add"})
            /\ op' = "step"
  /\ import' = ImportAdvance(import.rest, import.aliased, templatesJSON)
  /\ UNCHANGED <<templatesJSON, stored, cacheVersion, autoColorLive,
                 templatesShouldBeDrawn, zoomLevel, isZoomedOut, canvasScale, create>>

\* ------------------------------------------------ zoom and mode toggles
\* The 'zoom', 'move' and 'resize' listeners (lines 84-86)
ZoomEvent(detailZoom) ==
  LET u == updateZoomState(detailZoom, zoomLevel, isZoomedOut, canvasScale)
  IN /\ zoomLevel' = u.zoomLevel
     /\ isZoomedOut' = u.isZoomedOut
     /\ IF u.changed
          THEN /\ cacheVersion' = cacheVersion + 1
               /\ Cleared({"zoom"})
               /\ op' = "step"
          ELSE /\ op' = "step"
               /\ UNCHANGED <<cacheVersion, mergedTileCache, draw, lastDraw>>
     /\ UNCHANGED <<templatesArray, templatesJSON, stored, autoColorLive,
                    templatesShouldBeDrawn, canvasScale, create, import>>

\* The page changes the CSS transform of the main canvas
SetCanvasScale(s) ==
  /\ s # canvasScale
  /\ canvasScale' = s
  /\ op' = "step"
  /\ UNCHANGED <<templatesArray, templatesJSON, stored, cacheVersion, mergedTileCache,
                 autoColorLive, templatesShouldBeDrawn, zoomLevel, isZoomedOut,
                 create, import, draw, lastDraw>>

\* setAutoColorLive(value), lines 449-451
SetAutoColorLive(value) ==
  /\ autoColorLive' = value
  /\ IF value # autoColorLive
       THEN /\ mergedTileCache' = MarkCache(mergedTileCache, {"color"})
            /\ draw' = MarkDraws(draw, {"color"})
            /\ lastDraw' = MarkLast(lastDraw, {"color"})
       ELSE UNCHANGED <<mergedTileCache, draw, lastDraw>>
  /\ op' = "step"
  /\ UNCHANGED <<templatesArray, templatesJSON, stored, cacheVersion,
                 templatesShouldBeDrawn, zoomLevel, isZoomedOut, canvasScale,
                 create, import>>

\* setTemplatesShouldBeDrawn(value), lines 790-792
SetTemplatesShouldBeDrawn(value) ==
  /\ templatesShouldBeDrawn' = value
  /\ op' = "step"
  /\ UNCHANGED <<templatesArray, templatesJSON, stored, cacheVersion, mergedTileCache,
                 autoColorLive, zoomLevel, isZoomedOut, canvasScale,
                 create, import, draw, lastDraw>>

\* --------------------------------------------------- drawTemplateOnTile
\* templateArray.sort((a, b) => a.sortID - b.sortID): a stable sort
RECURSIVE InsertBySortID(_, _)
InsertBySortID(sorted, t) ==
  IF sorted = <<>> THEN <<t>>
  ELSE LET n == Len(sorted)
       IN IF sorted[n].sortID <= t.sortID
            THEN Append(sorted, t)
            ELSE Append(InsertBySortID(SubSeq(sorted, 1, n - 1), t), sorted[n])

RECURSIVE SortBySortID(_)
SortBySortID(arr) ==
  IF arr = <<>> THEN <<>>
  ELSE InsertBySortID(SortBySortID(SubSeq(arr, 1, Len(arr) - 1)), arr[Len(arr)])

\* The Template objects of the array, each with its position in it (the
\* identity of the object, which the filtered and sorted copies keep)
WithPos(arr) ==
  [i \in 1..Len(arr) |->
     [pos |-> i, sortID |-> arr[i].sortID, idKey |-> arr[i].idKey,
      enabled |-> arr[i].enabled, chunked |-> arr[i].chunked,
      sliced |-> arr[i].sliced, img |-> arr[i].img]]

\* A variant of the filter that keeps every template (C15 fails with it)
EnabledTemplates_All(arr) == arr

\* this.templatesArray.filter(t => t?.enabled)
EnabledTemplates(arr) == SelectSeq2(arr, {i \in 1..Len(arr) : arr[i].enabled})

\* A variant of the prefix test that accepts every key (C16 fails with it)
startsWith_Any(key, tile) == TRUE

\* tile.startsWith(tileCoords), for tile coordinates of at most 4 digits
startsWith(key, tile) == key[1] = tile[1] /\ key[2] = tile[2]

\* Object.keys(template.chunked).filter(tile => tile.startsWith(tileCoords))
MatchingTiles(t, tile) == {k \in t.chunked : startsWith(k, tile)}

\* matchingTileBlobs?.[0]: the first matching key in the order slicing
\* inserted the keys (rows top to bottom, then left to right)
FirstMatching(t, tile) ==
  CHOOSE k \in MatchingTiles(t, tile) :
    \A o \in MatchingTiles(t, tile) :
      k[4] < o[4] \/ (k[4] = o[4] /\ k[3] <= o[3])

\* Lines 306-316: the chunk map the bitmap is taken from.  An imported
\* template has only `chunked`, the persisted bitmaps.
SourceMap(t, live) ==
  IF t.sliced THEN (IF live THEN "chunkedAuto" ELSE "chunkedOriginal") ELSE "chunked"

\* A variant of lines 283-324 without the sort of line 285: the templates
\* are drawn in the order of templatesArray (C4 fails with it)
templatesToDraw_Unsorted(arr, tile, live) ==
  LET enabled == EnabledTemplates(WithPos(arr))
      hit == SelectSeq2(enabled, {i \in 1..Len(enabled) : MatchingTiles(enabled[i], tile) # {}})
  IN [i \in 1..Len(hit) |->
        [pos |-> hit[i].pos, idKey |-> hit[i].idKey, sortID |-> hit[i].sortID,
         map |-> SourceMap(hit[i], live), tile |-> FirstMatching(hit[i], tile)]]

\* Lines 283-324: what is drawn on the tile, in drawing order
templatesToDraw(arr, tile, live) ==
  LET sorted == SortBySortID(EnabledTemplates(WithPos(arr)))
      hit == SelectSeq2(sorted, {i \in 1..Len(sorted) : MatchingTiles(sorted[i], tile) # {}})
  IN [i \in 1..Len(hit) |->
        [pos |-> hit[i].pos, idKey |-> hit[i].idKey, sortID |-> hit[i].sortID,
         map |-> SourceMap(hit[i], live), tile |-> FirstMatching(hit[i], tile)]]

\* Line 277
CacheKey(tile, live, zoomedOut, v) ==
  [tile |-> tile, color |-> IF live THEN "auto" ELSE "orig",
   zoom |-> IF zoomedOut THEN "full" ELSE "mask", v |-> v]

\* A drawTemplateOnTile call returns
Returned(kind, tile, result, during, hitEv, hitStale) ==
  [kind |-> kind, tile |-> tile, result |-> result, during |-> during,
   changed |-> FALSE, hitEv |-> hitEv, hitStale |-> hitStale]

\* drawTemplateOnTile(tileBlob, tileCoords), lines 259-349, up to its return
\* or to `await createImageBitmap(tileBlob)`
DrawCall(d, tile) ==
  /\ draw[d].pc = "idle"
  /\ IF ~templatesShouldBeDrawn \/ Len(templatesArray) = 0
       THEN /\ lastDraw' = Returned(IF templatesShouldBeDrawn THEN "tileBlob" ELSE "off",
                                    tile, NoBlob, FALSE, {}, FALSE)
            /\ op' = "drawCall"
            /\ UNCHANGED <<cacheVersion, mergedTileCache, zoomLevel, isZoomedOut, draw>>
       ELSE
         LET u == updateZoomState(Null, zoomLevel, isZoomedOut, canvasScale)
             v == IF u.changed THEN cacheVersion + 1 ELSE cacheVersion
             cache == IF u.changed THEN EmptyCache ELSE mergedTileCache
             flight == IF u.changed THEN MarkDraws(draw, {"zoom"}) ELSE draw
             key == CacheKey(tile, autoColorLive, u.isZoomedOut, v)
             list == templatesToDraw(templatesArray, tile, autoColorLive)
         IN /\ zoomLevel' = u.zoomLevel
            /\ isZoomedOut' = u.isZoomedOut
            /\ cacheVersion' = v
            /\ mergedTileCache' = cache
            /\ IF key \in DOMAIN cache
                 THEN /\ lastDraw' = Returned("cached", tile, cache[key].blob, FALSE,
                                              cache[key].evSnap, cache[key].stale)
                      /\ draw' = flight
                      /\ op' = "drawCall"
                 ELSE IF list = <<>>
                   THEN /\ lastDraw' = Returned("tileBlob", tile, NoBlob, FALSE,
                                                {}, FALSE)
                        /\ draw' = flight
                        /\ op' = "drawCall"
                   ELSE /\ lastDraw' = IF u.changed THEN MarkLast(lastDraw, {"zoom"})
                                       ELSE lastDraw
                        /\ draw' = [flight EXCEPT ![d] =
                                      [pc |-> "decode", tile |-> tile, key |-> key,
                                       toDraw |-> list, blob |-> NoBlob, ev |-> {},
                                       changed |-> FALSE]]
                        /\ op' = "drawCall"
  /\ UNCHANGED <<templatesArray, templatesJSON, stored, autoColorLive,
                 templatesShouldBeDrawn, canvasScale, create, import>>

\* Lines 364-367: the zoom mode the opacity is chosen by
localIsZoomedOut(scale, zl, izo) ==
  LET zEff == IF scale.t = "num" THEN Num(Log2(scale.v)) ELSE zl
  IN IF zEff.t = "num" THEN zEff.v <= zoomOutThreshold ELSE izo

\* Lines 351-388 after the tile image was decoded: the templates are drawn
\* in the order of the list, up to `await canvas.convertToBlob(...)`
DrawCompose(d) ==
  /\ draw[d].pc = "decode"
  /\ draw' = [draw EXCEPT ![d].pc = "encode",
                          ![d].blob = [draws |-> draw[d].toDraw,
                                       zoomedOut |-> localIsZoomedOut(canvasScale,
                                                       zoomLevel, isZoomedOut)]]
  /\ op' = "step"
  /\ UNCHANGED <<templatesArray, templatesJSON, stored, cacheVersion, mergedTileCache,
                 autoColorLive, templatesShouldBeDrawn, zoomLevel, isZoomedOut,
                 canvasScale, create, import, lastDraw>>

\* A variant of lines 390-391 that returns the composite without storing
\* it in mergedTileCache (C7 fails with it)
DrawStore_NoSet(d) ==
  /\ draw[d].pc = "encode"
  /\ lastDraw' = Returned("composed", draw[d].tile, draw[d].blob, draw[d].changed,
                          {}, FALSE)
  /\ draw' = [draw EXCEPT ![d] = IdleDraw]
  /\ op' = "step"
  /\ UNCHANGED <<templatesArray, templatesJSON, stored, cacheVersion, mergedTileCache,
                 autoColorLive, templatesShouldBeDrawn, zoomLevel, isZoomedOut,
                 canvasScale, create, import>>

\* Lines 390-391: the composite is stored under the key built at line 277
DrawStore(d) ==
  /\ draw[d].pc = "encode"
  /\ mergedTileCache' =
       [k \in DOMAIN mergedTileCache \cup {draw[d].key} |->
          IF k = draw[d].key
            THEN [blob |-> draw[d].blob, evSnap |-> draw[d].ev, stale |-> FALSE]
            ELSE mergedTileCache[k]]
  /\ lastDraw' = Returned("composed", draw[d].tile, draw[d].blob, draw[d].changed,
                          {}, FALSE)
  /\ draw' = [draw EXCEPT ![d] = IdleDraw]
  /\ op' = "step"
  /\ UNCHANGED <<templatesArray, templatesJSON, stored, cacheVersion,
                 autoColorLive, templatesShouldBeDrawn, zoomLevel, isZoomedOut,
                 canvasScale, create, import>>

\* ------------------------------------------- #getNearestPaletteIndexAt
\* colorIndexTiles[key] = { w, h, data } of a template of the image: filled
\* by slicing (Template line 250) or lazily from the bitmap (lines 541-601).
\* "A" is opaque then transparent, "D" transparent then opaque.
ImageIndexData(img) ==
  CASE img = "A" -> [w |-> 2, h |-> 1, data |-> <<1, 0>>]
    [] img = "B" -> [w |-> 1, h |-> 1, data |-> <<3>>]
    [] img = "C" -> [w |-> 2, h |-> 1, data |-> <<2, 2>>]
    [] OTHER -> [w |-> 2, h |-> 1, data |-> <<0, 4>>]

\* Lines 519-530 for one key: data[localY * w + localX] || 0 inside the
\* region, 0 outside
IndexAt(t, key, px) ==
  LET g == ImageIndexData(t.img)
      localX == px[1] - key[3]
      localY == px[2] - key[4]
  IN IF localX >= 0 /\ localY >= 0 /\ localX < g.w /\ localY < g.h
       THEN g.data[localY * g.w + localX + 1]
       ELSE 0

\* Lines 507-531 for one template: the first of its keys of the tile, in
\* insertion order, that has a non-zero index at the pixel
TemplateIndexAt(t, tile, px) ==
  LET hits == {k \in MatchingTiles(t, tile) : IndexAt(t, k, px) > 0}
  IN IF hits = {} THEN 0
     ELSE IndexAt(t, CHOOSE k \in hits :
                       \A o \in hits : k[4] < o[4] \/ (k[4] = o[4] /\ k[3] <= o[3]),
                  px)

RECURSIVE TopmostIndex(_, _, _, _)
\* Lines 499-533: for (let i = enabled.length - 1; i >= 0; i--), the first
\* non-zero index and the template it came from; 0 when there is none
TopmostIndex(enabled, i, tile, px) ==
  IF i = 0 THEN [idx |-> 0, pos |-> 0]
  ELSE LET v == TemplateIndexAt(enabled[i], tile, px)
       IN IF v > 0 THEN [idx |-> v, pos |-> enabled[i].pos]
          ELSE TopmostIndex(enabled, i - 1, tile, px)

\* A variant of the lookup without the sort of line 492: it walks the
\* enabled templates in the order of templatesArray (C19 fails with it)
getNearestPaletteIndexAt_ArrayOrder(arr, tile, px) ==
  LET enabled == EnabledTemplates(WithPos(arr))
  IN TopmostIndex(enabled, Len(enabled), tile, px)

\* #getNearestPaletteIndexAt(tileCoords, pixelCoords), lines 489-534
getNearestPaletteIndexAt(arr, tile, px) ==
  LET enabled == SortBySortID(EnabledTemplates(WithPos(arr)))
  IN TopmostIndex(enabled, Len(enabled), tile, px)

\* ------------------------------------------------------ specification
\* A call or an event of the environment
Call(A) == calls < MaxCalls /\ calls' = calls + 1 /\ A /\ UNCHANGED <<slice, pix, tpl, match>>

\* A setter called with the value the field has, and a zoom event that leaves
\* zoomLevel and isZoomedOut as they are, change nothing: they are stuttering
\* steps and are not counted as calls
ZoomChanges(z) ==
  LET u == updateZoomState(z, zoomLevel, isZoomedOut, canvasScale)
  IN u.zoomLevel # zoomLevel \/ u.isZoomedOut # isZoomedOut

\* A call in flight goes on after an await
Resume(A) == calls' = calls /\ A /\ UNCHANGED <<slice, pix, tpl, match>>

Next ==
  \/ \E c \in CreateCalls, keys \in SlicedKeySets : Call(CreateCall(c, keys))
  \/ \E c \in CreateCalls : Resume(CreateAfterJSON(c))
  \/ \E c \in CreateCalls : Resume(CreateRegister(c))
  \/ \E c \in CreateCalls : Resume(CreateDecodeFail(c))
  \/ \E k \in KeyInputs, e \in BOOLEAN : Call(SetTemplateEnabled(k, e))
  \/ \E k \in KeyInputs : Call(RemoveTemplate(k))
  \/ \E json \in ImportDocs : Call(ImportCall(json))
  \/ Resume(ImportPush)
  \/ \E z \in EventZooms : ZoomChanges(z) /\ Call(ZoomEvent(z))
  \/ \E s \in CanvasScales : Call(SetCanvasScale(s))
  \/ \E b \in BOOLEAN \ {autoColorLive} : Call(SetAutoColorLive(b))
  \/ \E b \in BOOLEAN \ {templatesShouldBeDrawn} : Call(SetTemplatesShouldBeDrawn(b))
  \/ \E d \in DrawCalls, tile \in TileCoords : Call(DrawCall(d, tile))
  \/ \E d \in DrawCalls : Resume(DrawCompose(d))
  \/ \E d \in DrawCalls : Resume(DrawStore(d))

Spec == Init /\ [][Next]_vars

\* ------------------------------------------- Template.createTemplateTiles
Min(a, b) == IF a <= b THEN a ELSE b

\* A variant of the region size that is not clipped to the image (C20 fails
\* with it)
drawSize_NoClip(tileSize, pixel, extent, origin) == tileSize - (pixel % tileSize)

\* A variant of the region size that is 0 for a region that starts on a tile
\* boundary (C38 fails with it)
drawSize_ZeroAtBoundary(tileSize, pixel, extent, origin) ==
  Min((tileSize - (pixel % tileSize)) % tileSize, extent - (pixel - origin))

\* A variant of the region size that ignores where in its tile the region
\* starts (C30 fails with it)
drawSize_FromAnywhere(tileSize, pixel, extent, origin) ==
  Min(tileSize, extent - (pixel - origin))

\* Template lines 137 and 149: Math.min(this.tileSize - (pixel % this.tileSize),
\* extent - (pixel - origin)), the size of the region that starts at pixel
drawSize(tileSize, pixel, extent, origin) ==
  Min(tileSize - (pixel % tileSize), extent - (pixel - origin))

\* A variant of the tile key without the pixel offsets (C22 fails with it)
templateTileName_TileOnly(coords, pixelX, pixelY) ==
  <<coords[1] + (pixelX \div KeyTileSize), coords[2] + (pixelY \div KeyTileSize), 0, 0>>

\* Template lines 241-247: the key "TTTT,TTTT,PPP,PPP" of the region that
\* starts at pixelX, pixelY, as <<tileX, tileY, pxX, pxY>>.  coords is the
\* anchor tile (this.coords[0], this.coords[1]).  The numbers are not
\* negative, so padStart only prepends zeros and the four fields determine
\* the string.
templateTileName(coords, pixelX, pixelY) ==
  <<coords[1] + (pixelX \div KeyTileSize), coords[2] + (pixelY \div KeyTileSize),
    pixelX % KeyTileSize, pixelY % KeyTileSize>>

\* Lines 107-111 and the constructor (line 50): the key sets of the five
\* maps the run returns and of this.colorIndexTiles, all empty
NoMaps ==
  [templateTiles |-> {}, templateTilesAuto |-> {}, templateTilesFull |-> {},
   templateTilesAutoFull |-> {}, templateTilesBuffers |-> {}, colorIndexTiles |-> {}]

\* A variant that stores no index grid (C37 fails with it)
StoreRegion_NoIndex(maps, key) ==
  [maps EXCEPT !.templateTiles = @ \cup {key}, !.templateTilesAuto = @ \cup {key},
               !.templateTilesFull = @ \cup {key}, !.templateTilesAutoFull = @ \cup {key},
               !.templateTilesBuffers = @ \cup {key}]

\* Lines 250-260 and 280: the region is stored under its key in
\* this.colorIndexTiles, in the four bitmap maps and in the buffer map
StoreRegion(maps, key) ==
  [templateTiles |-> maps.templateTiles \cup {key},
   templateTilesAuto |-> maps.templateTilesAuto \cup {key},
   templateTilesFull |-> maps.templateTilesFull \cup {key},
   templateTilesAutoFull |-> maps.templateTilesAutoFull \cup {key},
   templateTilesBuffers |-> maps.templateTilesBuffers \cup {key},
   colorIndexTiles |-> maps.colorIndexTiles \cup {key}]

\* The state at the first iteration of the loops of lines 131 and 141, for
\* an image of W x H pixels anchored at tile anchor, pixel offset coords
StartSlice(W, H, anchor, coords, tileSize) ==
  [pc |-> "run", W |-> W, H |-> H, anchor |-> anchor, coords |-> coords,
   tileSize |-> tileSize,
   pixelX |-> coords[1], pixelY |-> coords[2], regions |-> <<>>,
   maps |-> NoMaps]

\* One iteration of the inner loop (lines 141-285): the region that starts
\* at pixelX, pixelY is cut out of the image at pixelX - coords[2],
\* pixelY - coords[3] and stored under its tile key (lines 250-260, 280);
\* then pixelX += drawSizeX, and at the end of the row pixelY += drawSizeY.
\* A region records its rectangle in the image (x, y, w, h), the loop
\* variables it started at (pixelX, pixelY) and its key.
SliceRegion ==
  /\ slice.pc = "run"
  /\ LET drawSizeY == drawSize(slice.tileSize, slice.pixelY, slice.H, slice.coords[2])
         drawSizeX == drawSize(slice.tileSize, slice.pixelX, slice.W, slice.coords[1])
         region == [x |-> slice.pixelX - slice.coords[1],
                    y |-> slice.pixelY - slice.coords[2],
                    w |-> drawSizeX, h |-> drawSizeY,
                    pixelX |-> slice.pixelX, pixelY |-> slice.pixelY,
                    key |-> templateTileName(slice.anchor, slice.pixelX, slice.pixelY)]
         nextX == slice.pixelX + drawSizeX
         nextY == slice.pixelY + drawSizeY
         rowEnds == ~(nextX < slice.W + slice.coords[1])
         ends == rowEnds /\ ~(nextY < slice.H + slice.coords[2])
     IN slice' = [slice EXCEPT
                    !.regions = Append(@, region),
                    !.maps = StoreRegion(@, region.key),
                    !.pixelX = IF rowEnds THEN slice.coords[1] ELSE nextX,
                    !.pixelY = IF rowEnds THEN nextY ELSE @,
                    !.pc = IF ends THEN "done" ELSE "run"]
  /\ UNCHANGED <<managerVars, pix, tpl, match>>

\* The tileSize values of a run: small ones, and the default of the
\* Template constructor
TileSizes == (1..MaxTileSize) \cup {DefaultTileSize}
\* The pixel offsets of the anchor (this.coords[2], this.coords[3]): small
\* ones, and one close to the end of a tile
PixelOffsets == (0..MaxOffset) \cup {KeyTileSize - 2}

\* createTemplateTiles for every image size, anchor and tileSize of the
\* bounds
InitSlice ==
  /\ ManagerInit /\ pix = IdlePixel /\ tpl = IdleTpl /\ match = IdleMatch
  /\ \E W \in 1..MaxSide, H \in 1..MaxSide, tileSize \in TileSizes,
        anchor \in TileCoords, cx \in PixelOffsets, cy \in PixelOffsets :
       slice = StartSlice(W, H, anchor, <<cx, cy>>, tileSize)

NextSlice == SliceRegion

SpecSlice == InitSlice /\ [][NextSlice]_vars

\* The run goes on: the awaits of an iteration (lines 263-278, convertToBlob
\* and arrayBuffer) resolve and the loop takes its next iteration
SpecSliceLive == InitSlice /\ [][NextSlice]_vars /\ WF_vars(SliceRegion)

\* ------------------------------------------------------- colorpalette
\* The palette is the array colorpalette of utils.js: entries {name, rgb},
\* the entry named Transparent first.  An entry whose rgb is missing is
\* written with rgb = <<>>.
TransparentEntry == [name |-> "Transparent", rgb |-> <<0, 0, 0>>]
PaletteEntries ==
  {[name |-> "Black", rgb |-> <<0, 0, 0>>], [name |-> "White", rgb |-> <<255, 255, 255>>],
   [name |-> "Red", rgb |-> <<255, 0, 0>>], [name |-> "Blue", rgb |-> <<0, 0, 255>>],
   [name |-> "Unknown", rgb |-> <<>>]}
\* The palettes: Transparent followed by up to MaxPalette entries
Palettes ==
  {<<TransparentEntry>> \o rest :
     rest \in UNION {[1..n -> PaletteEntries] : n \in 0..MaxPalette}}

\* dr*dr + dg*dg + db*db
Dist(q, rgb) ==
  (q[1] - rgb[1]) * (q[1] - rgb[1]) + (q[2] - rgb[2]) * (q[2] - rgb[2])
    + (q[3] - rgb[3]) * (q[3] - rgb[3])

\* bestDist = Infinity, nothing chosen yet
NoBest == [found |-> FALSE, dist |-> 0, at |-> 0]

\* A variant of the comparison that also takes an entry at the same
\* distance (C24 fails with it)
Closer_OrEqual(dist, best) == ~best.found \/ dist <= best.dist

\* `dist < bestDist`, where bestDist is Infinity until an entry is chosen
Closer(dist, best) == ~best.found \/ dist < best.dist

RECURSIVE ScanPalette(_, _, _, _, _)
\* The loop over colorpalette from position i on (positions from 1): the
\* entries at the positions of skipped are passed over, an entry closer
\* than the best so far becomes the best
ScanPalette(palette, skipped, q, i, best) ==
  IF i > Len(palette) THEN best
  ELSE IF i \in skipped THEN ScanPalette(palette, skipped, q, i + 1, best)
  ELSE LET dist == Dist(q, palette[i].rgb)
       IN ScanPalette(palette, skipped, q, i + 1,
                      IF Closer(dist, best)
                        THEN [found |-> TRUE, dist |-> dist, at |-> i] ELSE best)

\* Template lines 60-62 and 76-78: the entries the search passes over, the
\* one named Transparent and those without rgb
SkippedEntries(palette) ==
  {i \in 1..Len(palette) : palette[i].name = "Transparent" \/ palette[i].rgb = <<>>}

\* A variant that returns the first searched entry whatever its distance
\* (C39 fails with it)
nearestPaletteRGB_FirstSearched(palette, q) ==
  LET searched == (1..Len(palette)) \ SkippedEntries(palette)
  IN IF searched = {} THEN q
     ELSE palette[CHOOSE i \in searched : \A k \in searched : i <= k].rgb

\* Template.#nearestPaletteRGB(r, g, b), q = <<r, g, b>>: `best || [r, g, b]`
nearestPaletteRGB(palette, q) ==
  LET best == ScanPalette(palette, SkippedEntries(palette), q, 1, NoBest)
  IN IF best.found THEN palette[best.at].rgb ELSE q

\* A variant that returns the position among the searched entries only
\* (C29 fails with it)
nearestPaletteIndex_Searched(palette, q) ==
  LET best == ScanPalette(palette, SkippedEntries(palette), q, 1, NoBest)
  IN IF best.found
       THEN Cardinality({i \in 1..best.at : i \notin SkippedEntries(palette)}) - 1
       ELSE 1

\* Template.#nearestPaletteIndex(r, g, b): bestIndex starts at 1; the index
\* returned is the position in the array, which JavaScript counts from 0
nearestPaletteIndex(palette, q) ==
  LET best == ScanPalette(palette, SkippedEntries(palette), q, 1, NoBest)
  IN IF best.found THEN best.at - 1 ELSE 1

\* nearestIdx of #ensureIndexMapForTemplateTile (templateManager.js lines
\* 566-579): the same loop, passing over Transparent and the entries whose
\* rgb has fewer than 3 numbers
nearestIdx(palette, q) ==
  LET skipped == {i \in 1..Len(palette) :
                    palette[i].name = "Transparent" \/ Len(palette[i].rgb) < 3}
      best == ScanPalette(palette, skipped, q, 1, NoBest)
  IN IF best.found THEN best.at - 1 ELSE 1

\* ------------------------------- createTemplateTiles: the per-pixel loop
\* #DEFACE, the color of line 183
Deface == <<222, 250, 206>>
\* The pixels getImageData returns (line 172), as <<r, g, b, a>>
PixelColors ==
  {<<0, 0, 0>>, <<10, 10, 10>>, <<127, 127, 127>>, Deface, <<222, 250, 207>>,
   <<245, 245, 245>>, <<255, 0, 255>>}
PixelAlphas == {0, 32, 128, 255}
SourcePixels == {c \o <<a>> : c \in PixelColors, a \in PixelAlphas}

\* A variant that tests the alpha before the color (C23 fails with it)
convertPixel_AlphaFirst(palette, src, x, y) ==
  LET q == SubSeq(src, 1, 3)
  IN IF src[4] = 0 THEN [orig |-> src, mapped |-> src, idx |-> 0]
     ELSE IF q = Deface
       THEN IF (x + y) % 2 = 0
              THEN [orig |-> <<0, 0, 0, 32>>, mapped |-> <<0, 0, 0, 32>>, idx |-> 0]
              ELSE [orig |-> q \o <<0>>, mapped |-> q \o <<0>>, idx |-> 0]
     ELSE [orig |-> q \o <<255>>, mapped |-> nearestPaletteRGB(palette, q) \o <<255>>,
           idx |-> nearestPaletteIndex(palette, q)]

\* A variant that leaves the alpha of a colored pixel as it is (C28 fails
\* with it)
convertPixel_KeepAlpha(palette, src, x, y) ==
  LET q == SubSeq(src, 1, 3)
  IN IF q = Deface
       THEN IF (x + y) % 2 = 0
              THEN [orig |-> <<0, 0, 0, 32>>, mapped |-> <<0, 0, 0, 32>>, idx |-> 0]
              ELSE [orig |-> q \o <<0>>, mapped |-> q \o <<0>>, idx |-> 0]
     ELSE IF src[4] # 0
       THEN [orig |-> src, mapped |-> nearestPaletteRGB(palette, q) \o <<src[4]>>,
             idx |-> nearestPaletteIndex(palette, q)]
     ELSE [orig |-> src, mapped |-> src, idx |-> 0]

\* Lines 179-204, the body of the loop for the pixel src at x, y of the
\* region: orig and mapped start as copies of src (lines 174-175), idxMap
\* as 0 (line 176)
convertPixel(palette, src, x, y) ==
  LET q == SubSeq(src, 1, 3)
  IN IF q = Deface
       THEN IF (x + y) % 2 = 0
              THEN [orig |-> <<0, 0, 0, 32>>, mapped |-> <<0, 0, 0, 32>>, idx |-> 0]
              ELSE [orig |-> q \o <<0>>, mapped |-> q \o <<0>>, idx |-> 0]
     ELSE IF src[4] # 0
       THEN [orig |-> q \o <<255>>, mapped |-> nearestPaletteRGB(palette, q) \o <<255>>,
             idx |-> nearestPaletteIndex(palette, q)]
     ELSE [orig |-> src, mapped |-> src, idx |-> 0]

\* The loop body is about to run for the pixel src at x, y
StartPixel(palette, src, x, y) ==
  [pc |-> "src", palette |-> palette, src |-> src, x |-> x, y |-> y]

\* One iteration of the loops of lines 177-178
ConvertPixel ==
  /\ pix.pc = "src"
  /\ LET out == convertPixel(pix.palette, pix.src, pix.x, pix.y)
     IN pix' = [pc |-> "done", palette |-> pix.palette, src |-> pix.src,
                x |-> pix.x, y |-> pix.y,
                orig |-> out.orig, mapped |-> out.mapped, idx |-> out.idx]
  /\ UNCHANGED <<managerVars, slice, tpl, match>>

\* The loop body for every palette, pixel and position of the bounds
InitPixel ==
  /\ ManagerInit /\ canvasScale = Null /\ slice = IdleSlice /\ tpl = IdleTpl
  /\ match = IdleMatch
  /\ \E palette \in Palettes, src \in SourcePixels, x \in 0..MaxLocal, y \in 0..MaxLocal :
       pix = StartPixel(palette, src, x, y)

NextPixel == ConvertPixel

SpecPixel == InitPixel /\ [][NextPixel]_vars

\* ----------------------------------------- #ensureIndexMapForTemplateTile
\* A chunk bitmap as createTemplateTiles renders it with the dot mask: of
\* every drawMult x drawMult block only the center pixel is kept.  blocks is
\* the number of blocks in a row, samples the center pixels row by row.
MaskedBitmap(blocks, samples) ==
  [width |-> blocks * drawMult, height |-> (Len(samples) \div blocks) * drawMult,
   blocks |-> blocks, samples |-> samples]
\* The center pixels: transparent, dark, light
SamplePixels == {<<0, 0, 0, 0>>, <<10, 10, 10, 255>>, <<245, 245, 245, 255>>}
\* The bitmaps of one row of up to MaxBlocks blocks
Bitmaps ==
  UNION {{MaskedBitmap(n, samples) : samples \in [1..n -> SamplePixels]} : n \in 1..MaxBlocks}
\* The tile keys of the chunks of the template, and the sets of them a
\* template has
LazyKeys == {<<0, 0, 0, 0>>, <<0, 0, 5, 5>>, <<1, 0, 0, 0>>}
LazyKeySets == {{<<0, 0, 0, 0>>}, {<<0, 0, 0, 0>>, <<0, 0, 5, 5>>},
                {<<0, 0, 0, 0>>, <<1, 0, 0, 0>>}}
\* colorpalette during the lookups
LazyPalette ==
  <<TransparentEntry, [name |-> "Black", rgb |-> <<0, 0, 0>>],
    [name |-> "White", rgb |-> <<255, 255, 255>>]>>
\* tpl.colorIndexTiles[key] is undefined
NoGrid == [w |-> 0, h |-> 0, data |-> <<>>]

\* Math.round(n / d) for n >= 0, d > 0
Round(n, d) == (2 * n + d) \div (2 * d)
\* Math.max(1, n)
AtLeast1(n) == IF n < 1 THEN 1 ELSE n

\* img.data at the pixel number p / 4 (line 585): the pixel of the bitmap
\* in row-major order, undefined -- read as alpha 0 -- past the end
BitmapPixel(bmp, n) ==
  LET x == n % bmp.width
      y == n \div bmp.width
  IN IF n >= bmp.width * bmp.height THEN <<0, 0, 0, 0>>
     ELSE IF x % drawMult = drawMult \div 2 /\ y % drawMult = drawMult \div 2
       THEN bmp.samples[(y \div drawMult) * bmp.blocks + (x \div drawMult) + 1]
     ELSE <<0, 0, 0, 0>>

\* Lines 549-596: the grid { w, h, data: idxMap } computed from the bitmap
LazyGrid(bmp) ==
  LET w == AtLeast1(Round(bmp.width, drawMult))
      h == AtLeast1(Round(bmp.height, drawMult))
      mid == drawMult \div 2
  IN [w |-> w, h |-> h,
      data |-> [i \in 1..(w * h) |->
                  LET x == (i - 1) % w
                      y == (i - 1) \div w
                      s == BitmapPixel(bmp, (y * drawMult + mid) * bmp.width
                                              + (x * drawMult + mid))
                  IN IF s[4] = 0 THEN 0 ELSE nearestIdx(LazyPalette, SubSeq(s, 1, 3))]]

\* A variant without the test of line 545 (C27 fails with it)
ensureIndexMapForTemplateTile_NoGuard(t, key) ==
  IF key \notin DOMAIN t.chunked THEN t
  ELSE IF t.chunked[key].width = 0 \/ t.chunked[key].height = 0 THEN t
  ELSE IF ~t.canvasOk THEN t
  ELSE [t EXCEPT !.colorIndexTiles[key] = LazyGrid(t.chunked[key]),
                 !.computed[key] = @ + 1]

\* #ensureIndexMapForTemplateTile(tpl, key), lines 541-601.  canvasOk is
\* whether the canvas can be read: without it the method returns at line
\* 558 or through the catch of line 598.  computed counts how often the
\* grid of a key was computed.
ensureIndexMapForTemplateTile(t, key) ==
  IF t.colorIndexTiles[key] # NoGrid THEN t
  ELSE IF key \notin DOMAIN t.chunked THEN t
  ELSE IF t.chunked[key].width = 0 \/ t.chunked[key].height = 0 THEN t
  ELSE IF ~t.canvasOk THEN t
  ELSE [t EXCEPT !.colorIndexTiles[key] = LazyGrid(t.chunked[key]),
                 !.computed[key] = @ + 1]

\* A call of the method for key, counted in callsOf
EnsureCalled(t, key) ==
  [ensureIndexMapForTemplateTile(t, key) EXCEPT !.callsOf[key] = @ + 1]

RECURSIVE EnsureAll(_, _)
\* Lines 510-515: the method is called for every key of the set
EnsureAll(t, keys) ==
  IF keys = {} THEN t
  ELSE LET k == CHOOSE k \in keys : TRUE
       IN EnsureAll(EnsureCalled(t, k), keys \ {k})

\* The keys #getNearestPaletteIndexAt calls the method for (lines 507-511):
\* the chunk keys of the tile, when no grid of the tile exists
KeysToEnsure(t, tile) ==
  IF \E k \in LazyKeys : t.colorIndexTiles[k] # NoGrid /\ startsWith(k, tile)
    THEN {}
    ELSE {k \in DOMAIN t.chunked : startsWith(k, tile)}

\* A template with the chunks chunked; with sliced its grids were stored by
\* createTemplateTiles (Template line 250), otherwise colorIndexTiles is
\* the empty object of the constructor, as after an import
StartTpl(chunked, sliced, canvasOk) ==
  [pc |-> "ready", canvasOk |-> canvasOk, chunked |-> chunked,
   colorIndexTiles |-> [k \in LazyKeys |->
                          IF sliced /\ k \in DOMAIN chunked
                            THEN LazyGrid(chunked[k]) ELSE NoGrid],
   computed |-> [k \in LazyKeys |-> 0],
   callsOf |-> [k \in LazyKeys |-> 0],
   op |-> "none"]

\* this.#ensureIndexMapForTemplateTile(tpl, key) for a chunk key
EnsureIndexMap(key) ==
  /\ tpl.pc = "ready"
  /\ key \in DOMAIN tpl.chunked
  /\ tpl.callsOf[key] < MaxEnsure
  /\ tpl' = [EnsureCalled(tpl, key) EXCEPT !.op = "ensure"]
  /\ UNCHANGED <<managerVars, slice, pix, match>>

\* The iteration of the loop of #getNearestPaletteIndexAt for the template
\* (lines 500-516) in a lookup on tile
LookupLazy(tile) ==
  /\ tpl.pc = "ready"
  /\ KeysToEnsure(tpl, tile) # {}
  /\ \A k \in KeysToEnsure(tpl, tile) : tpl.callsOf[k] < MaxEnsure
  /\ tpl' = [EnsureAll(tpl, KeysToEnsure(tpl, tile)) EXCEPT !.op = "lookup"]
  /\ UNCHANGED <<managerVars, slice, pix, match>>

\* Lookups on every template of the bounds
InitLazy ==
  /\ ManagerInit /\ canvasScale = Null /\ slice = IdleSlice /\ pix = IdlePixel
  /\ match = IdleMatch
  /\ \E keys \in LazyKeySets, sliced \in BOOLEAN, canvasOk \in BOOLEAN :
       \E chunked \in [keys -> Bitmaps] : tpl = StartTpl(chunked, sliced, canvasOk)

NextLazy ==
  \/ \E key \in LazyKeys : EnsureIndexMap(key)
  \/ \E tile \in TileCoords : LookupLazy(tile)

SpecLazy == InitLazy /\ [][NextLazy]_vars

\* ------------------------------------------- tile keys as strings
\* A string is a sequence of one-character strings.
DigitChars == <<"0", "1", "2", "3", "4", "5", "6", "7", "8", "9">>

RECURSIVE toString(_)
\* Number.prototype.toString() of an integer n >= 0
toString(n) ==
  IF n < 10 THEN <<DigitChars[n + 1]>>
  ELSE toString(n \div 10) \o <<DigitChars[(n % 10) + 1]>>

\* A variant that does not pad (C31 fails with it)
padStart_None(str, len) == str

\* String.prototype.padStart(len, '0'): zeros in front of a shorter string,
\* a string of len or more characters as it is
padStart(str, len) ==
  IF Len(str) >= len THEN str ELSE [i \in 1..(len - Len(str)) |-> "0"] \o str

\* drawTemplateOnTile line 267: tileCoords as "XXXX,YYYY"
tileCoordsString(tile) ==
  padStart(toString(tile[1]), 4) \o <<",">> \o padStart(toString(tile[2]), 4)

\* #getNearestPaletteIndexAt line 494: tilePrefix as "XXXX,YYYY,"
tilePrefix(tile) ==
  padStart(toString(tile[1]), 4) \o <<",">> \o padStart(toString(tile[2]), 4) \o <<",">>

\* Template lines 241-247: the key string "TTTT,TTTT,PPP,PPP" of the key
\* <<tileX, tileY, pxX, pxY>>
KeyString(key) ==
  padStart(toString(key[1]), 4) \o <<",">> \o padStart(toString(key[2]), 4) \o <<",">>
    \o padStart(toString(key[3]), 3) \o <<",">> \o padStart(toString(key[4]), 3)

\* String.prototype.startsWith
startsWithString(str, prefix) ==
  Len(prefix) <= Len(str) /\ SubSeq(str, 1, Len(prefix)) = prefix

\* Tile coordinates of the range of the site, 0..2047, among them numbers
\* whose digits are the leading digits of another one, and pixel offsets
SiteCoords == {0, 1, 2, 10, 20, 204, 2047}
KeyOffsets == {0, 20}

\* The tests of line 297 and of lines 507 and 511 are about to run for the
\* requested tile and the chunk key
StartMatch(tile, key) == [pc |-> "test", tile |-> tile, key |-> key]

\* tile.startsWith(tileCoords) in drawTemplateOnTile and
\* key.startsWith(tilePrefix) in #getNearestPaletteIndexAt
MatchKey ==
  /\ match.pc = "test"
  /\ match' = [pc |-> "done", tile |-> match.tile, key |-> match.key,
               drawSelects |-> startsWithString(KeyString(match.key),
                                                tileCoordsString(match.tile)),
               lookupSelects |-> startsWithString(KeyString(match.key),
                                                  tilePrefix(match.tile))]
  /\ UNCHANGED <<managerVars, slice, pix, tpl>>

\* The prefix tests for every tile and key of the input sets
InitMatch ==
  /\ ManagerInit /\ canvasScale = Null /\ slice = IdleSlice /\ pix = IdlePixel
  /\ tpl = IdleTpl
  /\ \E x \in SiteCoords, y \in SiteCoords, tx \in SiteCoords, ty \in SiteCoords,
        px \in KeyOffsets, py \in KeyOffsets :
       match = StartMatch(<<x, y>>, <<tx, ty, px, py>>)

NextMatch == MatchKey

SpecMatch == InitMatch /\ [][NextMatch]_vars

\* ================================================================ claims
Ascending(l) == \A i \in 1..Len(l), k \in 1..Len(l) : i < k => l[i].sortID <= l[k].sortID

\* Some enabled template has a chunk on the tile
Overlapped(tile) ==
  \E i \in 1..Len(templatesArray) :
    /\ templatesArray[i].enabled
    /\ \E k \in templatesArray[i].chunked : k[1] = tile[1] /\ k[2] = tile[2]

\* C1: templatesArray never holds more than maxTemplates templates.
C1_AtMostMaxTemplates == Len(templatesArray) <= maxTemplates

\* C2: no two templates of templatesArray have the same idKey.
C2_IdKeyUnique ==
  \A i \in 1..Len(templatesArray), k \in 1..Len(templatesArray) :
    i # k => templatesArray[i].idKey # templatesArray[k].idKey

\* C3: when drawTemplateOnTile returns an entry of mergedTileCache, no
\* template was added or removed, no enabled flag changed and the zoom mode
\* did not flip since that entry was stored.
C3_CachedEntryIsFresh == lastDraw.kind = "cached" => ~lastDraw.hitStale

\* C4: the list drawTemplateOnTile draws is exactly the enabled templates
\* with a chunk on the tile, in ascending sortID order (so of two
\* overlapping templates with sortID 0 and 1, 1 is drawn last), and the
\* composite is drawn in the order of that list.
C4_DrawnInSortOrder ==
  [][\A d \in DrawCalls :
       /\ (draw[d].pc = "idle" /\ draw'[d].pc = "decode") =>
            LET l == draw'[d].toDraw
                on == {i \in 1..Len(templatesArray) :
                         templatesArray[i].enabled
                         /\ MatchingTiles(templatesArray[i], draw'[d].tile) # {}}
            IN /\ Ascending(l)
               /\ Len(l) = Cardinality(on)
               /\ \A i \in on : \E k \in 1..Len(l) :
                     /\ l[k].idKey = templatesArray[i].idKey
                     /\ l[k].sortID = templatesArray[i].sortID
       /\ (draw[d].pc = "decode" /\ draw'[d].pc = "encode") =>
            draw'[d].blob.draws = draw[d].toDraw
    ]_vars

\* C4 witness: a composite of two overlapping templates that stand in
\* templatesArray in descending sortID order, drawn 0 first and 1 on top.
C4_Witness ==
  /\ lastDraw.kind = "composed"
  /\ Len(lastDraw.result.draws) = 2
  /\ lastDraw.result.draws[1].sortID = 0
  /\ lastDraw.result.draws[2].sortID = 1
  /\ Len(templatesArray) = 2
  /\ templatesArray[1].sortID = 1
  /\ templatesArray[2].sortID = 0

\* C5: a createTemplate call made while templatesArray holds maxTemplates
\* templates goes no further than the capacity check, and leaves
\* templatesArray, templatesJSON, cacheVersion and mergedTileCache unchanged.
C5_RejectedCreateMutatesNothing ==
  [][/\ Len(templatesArray) >= maxTemplates =>
          \A c \in CreateCalls : create[c].pc = "idle" => create'[c].pc = "idle"
     /\ (op' = "createRejected" /\ calls' # calls) =>
          /\ Len(templatesArray) >= maxTemplates
          /\ UNCHANGED <<templatesArray, templatesJSON, cacheVersion, mergedTileCache>>
    ]_vars

\* C5 witness: a createTemplate call was just rejected on a full registry.
C5_Witness == op = "createRejected" /\ Len(templatesArray) >= maxTemplates

\* C6: a setTemplateEnabled call on a template of the registry, whether or
\* not the flag changes, strictly increases cacheVersion; and a draw never
\* returns a cache entry whose templates were chosen before such a call.
C6_SetEnabledInvalidates ==
  [][/\ op' = "setEnabled" => cacheVersion' > cacheVersion
     /\ lastDraw'.kind = "cached" => "enableCall" \notin lastDraw'.hitEv
    ]_vars

\* C6 witness: setTemplateEnabled(idKey, true) was just called on a template
\* of the registry after a draw had composed or returned a cached composite;
\* the cache is empty now.
C6_Witness ==
  /\ op = "setEnabled"
  /\ lastDraw.kind \in {"cached", "composed"}
  /\ \A i \in 1..Len(templatesArray) : templatesArray[i].enabled
  /\ mergedTileCache = EmptyCache

\* A drawTemplateOnTile call for the tile is made in this step, and it
\* returns in this step
DrawCalled(tile) ==
  /\ op' = "drawCall"
  /\ calls' # calls
  /\ \/ \E d \in DrawCalls : draw[d].pc = "idle" /\ draw'[d].pc = "decode"
                               /\ draw'[d].tile = tile
     \/ draw' = draw /\ lastDraw'.tile = tile

\* The call made in this step is the second of two consecutive calls for
\* the tile: the first has returned, no other call is in flight, some enabled
\* template overlaps the tile, and between the return of the first and this
\* call no template was added or removed, no setTemplateEnabled or
\* removeTemplate call was made, the color mode did not change and the zoom
\* mode did not flip
SecondOfTwo(tile) ==
  /\ DrawCalled(tile)
  /\ \A d \in DrawCalls : draw[d].pc = "idle"
  /\ lastDraw.kind # "none"
  /\ lastDraw.tile = tile
  /\ ~lastDraw.changed
  /\ isZoomedOut' = isZoomedOut
  /\ Overlapped(tile)

\* The call made in this step returns the cached entry, which is what the
\* call before it returned
ReturnsCachedSame ==
  /\ draw' = draw
  /\ lastDraw'.kind = "cached"
  /\ lastDraw'.result = lastDraw.result

C8_CacheVersionMonotonic == [][cacheVersion' >= cacheVersion]_vars

\* C8 witness: every call so far has bumped cacheVersion.
C8_Witness == cacheVersion = MaxCalls

\* C9: a step that changes isZoomedOut increments cacheVersion and empties
\* mergedTileCache, and a draw never returns a cache entry whose templates
\* were chosen before a zoom flip.
C9_ZoomFlipInvalidates ==
  [][/\ isZoomedOut' # isZoomedOut =>
          cacheVersion' = cacheVersion + 1 /\ mergedTileCache' = EmptyCache
     /\ lastDraw'.kind = "cached" => "zoom" \notin lastDraw'.hitEv
    ]_vars

\* C9 witness: the cache holds a composite whose templates were chosen
\* before a zoom flip and that was stored after it.
C9_Witness ==
  \E k \in DOMAIN mergedTileCache : "zoom" \in mergedTileCache[k].evSnap

\* C10: removeTemplate with an idKey no template has changes neither
\* templatesArray, templatesJSON, cacheVersion nor mergedTileCache.
C10_RemoveMissingIsNoOp ==
  [][op' = "removeMissing" =>
       UNCHANGED <<templatesArray, templatesJSON, cacheVersion, mergedTileCache>>]_vars

\* The templates of the sequence that have the idKey
WithKey(arr, k) == {i \in 1..Len(arr) : KeyOf(arr[i]) = k}

\* C11: a removeTemplate call for an idKey a template of the registry has
\* leaves no template with that idKey in templatesArray and no record under
\* it in templatesJSON.templates nor in the JSON handed to the store.
C11_RemoveDeletesEverywhere ==
  [][op' = "removed" =>
       \E k \in KeyInputs :
         /\ WithKey(templatesArray, k) # {}
         /\ WithKey(templatesArray', k) = {}
         /\ ~JsonHas(templatesJSON', k)
         /\ ~JsonHas(stored', k)
    ]_vars

\* C11 witness: a template that had a stored record was just removed, and
\* the store still holds the record of the template that is left.
C11_Witness ==
  /\ op = "removed"
  /\ Len(templatesArray) = 1
  /\ Len(stored.templates) = 1
  /\ Len(templatesJSON.templates) = 1

\* The sortIDs of the templates of the sequence
SortIDs(arr) == {arr[i].sortID : i \in 1..Len(arr)}

\* C12: the template a createTemplate call appends has the lowest
\* non-negative sortID that no template of the registry has at that time.
C12_LowestUnusedSortID ==
  [][\A c \in CreateCalls :
       (create[c].pc = "slice" /\ create'[c].pc = "idle"
          /\ Len(templatesArray') = Len(templatesArray) + 1) =>
         LET new == templatesArray'[Len(templatesArray')].sortID
         IN /\ new \notin SortIDs(templatesArray)
            /\ \A n \in 0..(new - 1) : n \in SortIDs(templatesArray)
    ]_vars

\* C13: no two templates of templatesArray have the same sortID.
C13_SortIDUnique ==
  \A i \in 1..Len(templatesArray), k \in 1..Len(templatesArray) :
    i # k => templatesArray[i].sortID # templatesArray[k].sortID

\* C14: the idKey of every template of templatesArray is its sortID, a
\* space and its authorID.
C14_IdKeyIsSortIDAndAuthorID ==
  \A i \in 1..Len(templatesArray) :
    templatesArray[i].idKey = <<templatesArray[i].sortID, templatesArray[i].authorID>>

\* C15: the templates a drawTemplateOnTile call chooses to draw all have
\* enabled true when the call starts, and the template the auto-color
\* lookup takes its index from has enabled true.
C15_DisabledContributesNothing ==
  [][/\ \A d \in DrawCalls :
          (draw[d].pc = "idle" /\ draw'[d].pc = "decode") =>
            \A k \in 1..Len(draw'[d].toDraw) :
              templatesArray[draw'[d].toDraw[k].pos].enabled
     /\ \A tile \in TileCoords, px \in PixelCoords :
          LET r == getNearestPaletteIndexAt(templatesArray', tile, px)
          IN r.pos # 0 => templatesArray'[r.pos].enabled
    ]_vars

\* C15 witness: a draw that started after a template on its tile was
\* disabled has composed the other template alone, and the lookup finds
\* the other template's index at a pixel where the disabled template, which
\* stands above it, has a non-zero index.
C15_Witness ==
  /\ lastDraw.kind = "composed"
  /\ ~lastDraw.during
  /\ ~lastDraw.changed
  /\ Len(lastDraw.result.draws) = 1
  /\ \E i \in 1..Len(templatesArray), px \in PixelCoords :
       LET r == getNearestPaletteIndexAt(templatesArray, lastDraw.tile, px)
       IN /\ ~templatesArray[i].enabled
          /\ TemplateIndexAt(templatesArray[i], lastDraw.tile, px) > 0
          /\ r.idx > 0
          /\ r.pos < i
          /\ templatesArray[r.pos].sortID <= templatesArray[i].sortID

\* C16: a drawTemplateOnTile call for a tile on which no enabled template
\* has a chunk returns the supplied tile image at once and adds no entry to
\* mergedTileCache.
C16_NoOverlapReturnsTile ==
  [][\A tile \in TileCoords :
       (DrawCalled(tile) /\ ~Overlapped(tile)) =>
         /\ draw' = draw
         /\ lastDraw'.kind \in {"off", "tileBlob"}
         /\ DOMAIN mergedTileCache' \subseteq DOMAIN mergedTileCache
    ]_vars

\* C16 witness: with a composite of another tile in the cache, a draw for a
\* tile on which the registry's templates have no enabled chunk has just
\* returned the tile image.
C16_Witness ==
  /\ op = "drawCall"
  /\ lastDraw.kind = "tileBlob"
  /\ Len(templatesArray) >= 1
  /\ ~Overlapped(lastDraw.tile)
  /\ mergedTileCache # EmptyCache

\* The chunk map the claim selects: color mode crossed with zoom mode
SelectedMap(live, zoom) ==
  IF zoom = "full"
    THEN (IF live THEN "chunkedAutoFull" ELSE "chunkedOriginalFull")
    ELSE (IF live THEN "chunkedAuto" ELSE "chunkedOriginal")

\* C17: for every template a drawTemplateOnTile call draws that has the four
\* chunk maps (a sliced template), the bitmap is taken from the map selected
\* by the color mode and by the zoom mode of the call's cache key: the full
\* variant under 'full', the masked variant under 'mask'.
C17_BitmapByColorAndZoom ==
  [][\A d \in DrawCalls :
       (draw[d].pc = "idle" /\ draw'[d].pc = "decode") =>
         \A k \in 1..Len(draw'[d].toDraw) :
           LET e == draw'[d].toDraw[k]
           IN templatesArray[e.pos].sliced =>
                e.map = SelectedMap(autoColorLive, draw'[d].key.zoom)
    ]_vars

\* C18: every composite in mergedTileCache was drawn with the zoomed-out
\* opacity exactly when the zoom mode of its cache key is zoomed-out ('full').
C18_OpacityMatchesKey ==
  \A k \in DOMAIN mergedTileCache :
    mergedTileCache[k].blob.zoomedOut = (k.zoom = "full")

\* The non-zero indices the index grid of the template has at the pixel
IndicesAt(t, tile, px) ==
  {IndexAt(t, k, px) : k \in {c \in t.chunked : c[1] = tile[1] /\ c[2] = tile[2]}} \ {0}

\* Template i is drawn after template k by the compositor
DrawnAfter(i, k) ==
  \/ templatesArray[i].sortID > templatesArray[k].sortID
  \/ (templatesArray[i].sortID = templatesArray[k].sortID /\ i > k)

\* C19: the auto-color lookup returns a non-zero index of the enabled
\* template that is drawn last among the enabled templates with a non-zero
\* index at the tile and pixel, and 0 when there is no such template.
C19_LookupTopmostFirst ==
  \A tile \in TileCoords, px \in PixelCoords :
    LET r == getNearestPaletteIndexAt(templatesArray, tile, px)
        cand == {i \in 1..Len(templatesArray) :
                   templatesArray[i].enabled
                   /\ IndicesAt(templatesArray[i], tile, px) # {}}
    IN IF cand = {}
         THEN r.idx = 0
         ELSE /\ r.pos \in cand
              /\ \A k \in cand \ {r.pos} : DrawnAfter(r.pos, k)
              /\ r.idx \in IndicesAt(templatesArray[r.pos], tile, px)

\* C19 witness: two enabled templates with the same sortID on tile 0,0; at
\* pixel 1,0 the lookup returns the index of the later one, at pixel 0,0,
\* where the later one is transparent, that of the earlier one, and at
\* pixel 2,0, outside both regions, 0.
C19_Witness ==
  /\ Len(templatesArray) = 2
  /\ templatesArray[1].enabled /\ templatesArray[2].enabled
  /\ templatesArray[1].sortID = templatesArray[2].sortID
  /\ getNearestPaletteIndexAt(templatesArray, <<0, 0>>, <<1, 0>>) = [idx |-> 4, pos |-> 2]
  /\ getNearestPaletteIndexAt(templatesArray, <<0, 0>>, <<0, 0>>) = [idx |-> 2, pos |-> 1]
  /\ getNearestPaletteIndexAt(templatesArray, <<0, 0>>, <<2, 0>>).idx = 0

\* The regions of the run that hold the pixel x, y of the image
RegionsWith(x, y) ==
  {i \in 1..Len(slice.regions) :
     LET r == slice.regions[i]
     IN r.x <= x /\ x < r.x + r.w /\ r.y <= y /\ y < r.y + r.h}

\* C20: the regions createTemplateTiles has cut lie inside the W x H box of
\* the image, are at most tileSize wide and high and do not overlap; when
\* the run ends every pixel of the box lies in exactly one region.
C20_SlicingCoversExactlyOnce ==
  /\ \A i \in 1..Len(slice.regions) :
       LET r == slice.regions[i]
       IN /\ 1 <= r.w /\ r.w <= slice.tileSize
          /\ 1 <= r.h /\ r.h <= slice.tileSize
          /\ 0 <= r.x /\ r.x + r.w <= slice.W
          /\ 0 <= r.y /\ r.y + r.h <= slice.H
  /\ \A x \in 0..(slice.W - 1), y \in 0..(slice.H - 1) :
       /\ Cardinality(RegionsWith(x, y)) <= 1
       /\ slice.pc = "done" => Cardinality(RegionsWith(x, y)) = 1

\* C20 witness: a run has ended for an image of the largest size whose
\* anchor is not on a tile boundary, with tiles smaller than the image: the
\* first region is a partial one and there are at least nine regions.
C20_Witness ==
  /\ slice.pc = "done"
  /\ slice.W = MaxSide /\ slice.H = MaxSide
  /\ slice.tileSize = 2
  /\ slice.coords = <<1, 1>>
  /\ Len(slice.regions) >= 9
  /\ slice.regions[1].w = 1

\* C21: the first two fields of a region's tile key are the anchor tile plus
\* the number of whole tiles of tileSize pixels before the pixel the region
\* starts at, and the last two are the offset of that pixel within its
\* tile, between 0 and tileSize - 1.
C21_KeyIsTileAndOffset ==
  \A i \in 1..Len(slice.regions) :
    LET r == slice.regions[i]
    IN /\ r.key[1] = slice.anchor[1] + (r.pixelX \div slice.tileSize)
       /\ r.key[2] = slice.anchor[2] + (r.pixelY \div slice.tileSize)
       /\ r.key[3] = r.pixelX % slice.tileSize
       /\ r.key[4] = r.pixelY % slice.tileSize
       /\ r.key[3] \in 0..(slice.tileSize - 1)
       /\ r.key[4] \in 0..(slice.tileSize - 1)

\* C21 for the runs with the tileSize the key is computed with: there the
\* key is the tile and the offset, also for a region that starts in the
\* next tile.
C21_KeyAtDefaultTileSize ==
  slice.tileSize = KeyTileSize => C21_KeyIsTileAndOffset

\* A run with the default tileSize has cut a region that starts in the tile
\* after the anchor tile
C21_DefaultCrossesTile ==
  /\ slice.tileSize = DefaultTileSize
  /\ \E i \in 1..Len(slice.regions) :
       slice.regions[i].key[1] = slice.anchor[1] + 1 /\ slice.regions[i].key[3] = 0

\* C22: the regions of one run have pairwise different tile keys.
C22_KeysUnique ==
  \A i \in 1..Len(slice.regions), k \in 1..Len(slice.regions) :
    i # k => slice.regions[i].key # slice.regions[k].key

\* C22 witness: a run has cut two regions of the same tile and a region of
\* the tile to the right of it.
C22_Witness ==
  \E i \in 1..Len(slice.regions), k \in 1..Len(slice.regions), m \in 1..Len(slice.regions) :
    /\ i # k
    /\ slice.regions[i].key[1] = slice.regions[k].key[1]
    /\ slice.regions[i].key[2] = slice.regions[k].key[2]
    /\ slice.regions[m].key[1] = slice.regions[i].key[1] + 1

\* C23: a pixel whose color is #DEFACE gets index 0 whatever its alpha; at
\* an even x + y both buffers hold translucent black (0, 0, 0, 32), at an
\* odd x + y both hold alpha 0.
C23_SentinelCheckerboard ==
  (pix.pc = "done" /\ SubSeq(pix.src, 1, 3) = <<222, 250, 206>>) =>
    /\ pix.idx = 0
    /\ (pix.x + pix.y) % 2 = 0 =>
         pix.orig = <<0, 0, 0, 32>> /\ pix.mapped = <<0, 0, 0, 32>>
    /\ (pix.x + pix.y) % 2 = 1 => pix.orig[4] = 0 /\ pix.mapped[4] = 0

\* C23 witness: a #DEFACE pixel of alpha 0 at the even position 1,1 has
\* become translucent black.
C23_Witness ==
  /\ pix.pc = "done"
  /\ pix.src = <<222, 250, 206, 0>>
  /\ pix.x = 1 /\ pix.y = 1
  /\ pix.orig = <<0, 0, 0, 32>>

\* The positions of the palette entries the search considers: those not
\* named Transparent that have an rgb
Searchable(palette) ==
  {i \in 1..Len(palette) : palette[i].name # "Transparent" /\ Len(palette[i].rgb) = 3}

\* The first position, in palette order, of a searchable entry at minimal
\* squared distance to q
FirstNearest(palette, q) ==
  CHOOSE i \in Searchable(palette) :
    /\ \A k \in Searchable(palette) : Dist(q, palette[i].rgb) <= Dist(q, palette[k].rgb)
    /\ \A k \in Searchable(palette) :
         k < i => Dist(q, palette[k].rgb) > Dist(q, palette[i].rgb)

\* C24: for the color of the pixel, #nearestPaletteRGB returns the rgb of
\* the first searchable palette entry at minimal squared distance, and the
\* color itself when no entry is searchable; the mapped buffer of a
\* converted colored pixel holds that rgb.
C24_NearestColorFirstMinimum ==
  pix.pc \in {"src", "done"} =>
    /\ LET q == SubSeq(pix.src, 1, 3)
       IN nearestPaletteRGB(pix.palette, q) =
            IF Searchable(pix.palette) = {} THEN q
            ELSE pix.palette[FirstNearest(pix.palette, q)].rgb
    /\ (pix.pc = "done" /\ SubSeq(pix.src, 1, 3) # <<222, 250, 206>> /\ pix.src[4] # 0) =>
         SubSeq(pix.mapped, 1, 3) =
           IF Searchable(pix.palette) = {} THEN SubSeq(pix.src, 1, 3)
           ELSE pix.palette[FirstNearest(pix.palette, SubSeq(pix.src, 1, 3))].rgb

\* C24 witness: the grey (127, 127, 127) is equally near Blue and Red; with
\* Blue before Red in the palette the mapped pixel is blue.
C24_Witness ==
  /\ pix.pc = "done"
  /\ Len(pix.palette) = 3
  /\ pix.palette[2].name = "Blue" /\ pix.palette[3].name = "Red"
  /\ pix.src = <<127, 127, 127, 255>>
  /\ Dist(<<127, 127, 127>>, pix.palette[2].rgb) = Dist(<<127, 127, 127>>, pix.palette[3].rgb)
  /\ pix.mapped = <<0, 0, 255, 255>>

\* C28: a converted pixel that is not #DEFACE and has alpha # 0 has alpha
\* 255 in both buffers, its source rgb in orig, the nearest palette color
\* in mapped and the nearest palette index in the index grid; one with
\* alpha 0 keeps alpha 0 in both buffers and has index 0.
C28_ColoredPixelOpaque ==
  (pix.pc = "done" /\ SubSeq(pix.src, 1, 3) # <<222, 250, 206>>) =>
    LET q == SubSeq(pix.src, 1, 3)
    IN /\ pix.src[4] # 0 =>
            /\ pix.orig = q \o <<255>>
            /\ pix.mapped = nearestPaletteRGB(pix.palette, q) \o <<255>>
            /\ pix.idx = nearestPaletteIndex(pix.palette, q)
       /\ pix.src[4] = 0 =>
            pix.orig[4] = 0 /\ pix.mapped[4] = 0 /\ pix.idx = 0

\* C28 witness: a half-transparent dark pixel has become opaque, black in
\* the mapped buffer, with the index of Black, which is the third entry.
C28_Witness ==
  /\ pix.pc = "done"
  /\ pix.src = <<10, 10, 10, 128>>
  /\ pix.orig = <<10, 10, 10, 255>>
  /\ pix.mapped = <<0, 0, 0, 255>>
  /\ pix.idx = 2

\* C29: for the color of the pixel, #nearestPaletteIndex returns the
\* position, counted from 0 in the whole palette, of the first searchable
\* entry at minimal squared distance, and 1 when no entry is searchable; the
\* entry at the returned position is never the one named Transparent;
\* nearestIdx of the lazy reconstruction returns the same; the index grid of
\* a converted colored pixel holds that index.
C29_NearestIndexInFullPalette ==
  pix.pc \in {"src", "done"} =>
      LET q == SubSeq(pix.src, 1, 3)
          idx == nearestPaletteIndex(pix.palette, q)
      IN /\ idx = IF Searchable(pix.palette) = {} THEN 1
                  ELSE FirstNearest(pix.palette, q) - 1
         /\ idx + 1 \in 1..Len(pix.palette) => pix.palette[idx + 1].name # "Transparent"
         /\ nearestIdx(pix.palette, q) = idx
         /\ (pix.pc = "done" /\ q # <<222, 250, 206>> /\ pix.src[4] # 0) => pix.idx = idx

\* C29 witness: in the palette Transparent, Unknown (no rgb), White, Black a
\* dark pixel got the index 3 of Black: the slots of Transparent and of the
\* entry without rgb are counted.
C29_Witness ==
  /\ pix.pc = "done"
  /\ Len(pix.palette) = 4
  /\ pix.palette[2].name = "Unknown" /\ pix.palette[3].name = "White"
  /\ pix.palette[4].name = "Black"
  /\ pix.src = <<10, 10, 10, 255>>
  /\ pix.idx = 3

\* C30: the width of every region is min(tileSize - (pixelX mod tileSize),
\* the width of the image right of the region's left edge), and likewise
\* its height; so a region lies inside one tile of tileSize pixels, only a
\* region at the left or top edge of the image starts off a tile boundary,
\* and a region that touches neither the first nor the last column (row) of
\* the image is exactly tileSize wide (high).
C30_RegionSizes ==
  \A i \in 1..Len(slice.regions) :
    LET r == slice.regions[i]
        t == slice.tileSize
    IN /\ r.w = Min(t - (r.pixelX % t), slice.W - r.x)
       /\ r.h = Min(t - (r.pixelY % t), slice.H - r.y)
       /\ r.pixelX \div t = (r.pixelX + r.w - 1) \div t
       /\ r.pixelY \div t = (r.pixelY + r.h - 1) \div t
       /\ r.x > 0 => r.pixelX % t = 0
       /\ r.y > 0 => r.pixelY % t = 0
       /\ (r.x > 0 /\ r.x + r.w < slice.W) => r.w = t
       /\ (r.y > 0 /\ r.y + r.h < slice.H) => r.h = t

\* C30 witness: a run with tileSize 2 over an image 4 wide anchored one
\* pixel off a tile boundary has ended; its first row has a partial first
\* region, an interior region of width 2 and a partial last region.
C30_Witness ==
  /\ slice.pc = "done"
  /\ slice.tileSize = 2 /\ slice.W = 4 /\ slice.coords[1] = 1
  /\ Len(slice.regions) >= 3
  /\ slice.regions[1].w = 1 /\ slice.regions[1].pixelX % 2 = 1
  /\ slice.regions[2].x = 1 /\ slice.regions[2].w = 2
  /\ slice.regions[3].x = 3 /\ slice.regions[3].w = 1

\* C25: a call of importJSON with an object whose whoami is neither
\* 'BlueMarble' nor the tag of the script leaves templatesArray,
\* templatesJSON, cacheVersion and mergedTileCache as they are and starts no
\* import: no record of the object is decoded or pushed.
C25_ForeignWhoamiIgnored ==
  [][\A json \in ImportDocs :
       (json.whoami # "BlueMarble" /\ json.whoami # ScriptWhoami /\ ImportCall(json)) =>
         /\ UNCHANGED <<templatesArray, templatesJSON, cacheVersion, mergedTileCache>>
         /\ import' = IdleImport]_vars

\* C25 witness: importJSON was called with an object of another product
\* while a template was registered and a composite cached; it was ignored.
C25_Witness ==
  /\ op = "importIgnored"
  /\ Len(templatesArray) >= 1
  /\ ~templatesJSON.isNull
  /\ mergedTileCache # EmptyCache

\* C26: a createTemplate call whose image cannot be decoded ends with a
\* rejection and registers nothing.  None of its steps changes
\* templatesArray, cacheVersion or mergedTileCache; the step that creates
\* the JSON object (templatesJSON was null before the call) leaves
\* templatesJSON.templates empty; the failing step leaves templatesJSON and
\* the stored value as they are; and a call waiting for the slicing ends
\* only by registering its template or by the rejection.
C26_DecodeFailureRegistersNothing ==
  [][\A c \in CreateCalls :
       /\ (create[c].pc = "idle" /\ create'[c].pc \in {"json", "slice"}) =>
            UNCHANGED <<templatesArray, templatesJSON, cacheVersion, mergedTileCache>>
       /\ (create[c].pc = "json" /\ create'[c].pc # "json") =>
            /\ UNCHANGED <<templatesArray, cacheVersion, mergedTileCache>>
            /\ templatesJSON'.templates = <<>>
       /\ (create[c].pc = "slice" /\ create'[c].pc = "idle") =>
            \/ /\ op' = "createFailed"
               /\ UNCHANGED <<templatesArray, templatesJSON, stored, cacheVersion,
                              mergedTileCache>>
            \/ /\ op' # "createFailed"
               /\ Len(templatesArray') = Len(templatesArray) + 1]_vars

\* C26 witness: the first createTemplate call created the JSON object and
\* then failed to decode its image: the object has no record, nothing is
\* registered or stored and the cache version is 0.
C26_Witness ==
  /\ op = "createFailed"
  /\ ~templatesJSON.isNull /\ templatesJSON.templates = <<>>
  /\ templatesArray = <<>>
  /\ stored.isNull
  /\ cacheVersion = 0

\* C27: a call of #ensureIndexMapForTemplateTile for a key it was called for
\* before leaves colorIndexTiles[key] as it is and computes no grid -- a
\* direct call leaves the whole of colorIndexTiles as it is -- and the grid
\* of a key is computed at most once.
C27_LazyIndexIdempotent ==
  [][\A k \in LazyKeys :
       (tpl.pc = "ready" /\ tpl.callsOf[k] >= 1 /\ tpl'.callsOf[k] > tpl.callsOf[k]) =>
         /\ tpl'.colorIndexTiles[k] = tpl.colorIndexTiles[k]
         /\ tpl'.computed[k] = tpl.computed[k]
         /\ tpl'.computed[k] <= 1
         /\ tpl'.op = "ensure" =>
              tpl'.colorIndexTiles = tpl.colorIndexTiles /\ tpl'.computed = tpl.computed]_vars

\* C27 witness: the method was called twice for the key 0,0,0,0 of a
\* template without grids; the grid of the key was computed once, from a
\* bitmap of two blocks, dark then transparent.
C27_Witness ==
  /\ tpl.pc = "ready"
  /\ tpl.op = "ensure"
  /\ tpl.callsOf[<<0, 0, 0, 0>>] = 2
  /\ tpl.computed[<<0, 0, 0, 0>>] = 1
  /\ tpl.colorIndexTiles[<<0, 0, 0, 0>>] = [w |-> 2, h |-> 1, data |-> <<1, 0>>]

\* C35: setTemplateEnabled(idKey, enabled) with an idKey that no template of
\* templatesArray has leaves templatesArray (every enabled flag),
\* templatesJSON, cacheVersion, mergedTileCache and the stored value as they
\* are.
C35_SetEnabledMissingIsNoOp ==
  [][\A k \in KeyInputs, b \in BOOLEAN :
       (WithKey(templatesArray, k) = {} /\ SetTemplateEnabled(k, b)) =>
         UNCHANGED <<templatesArray, templatesJSON, cacheVersion, mergedTileCache,
                     stored>>]_vars

\* C35 witness: setTemplateEnabled was just called with an idKey no template
\* has, while another template was registered and stored and a composite was
\* cached.
C35_Witness ==
  /\ op = "setEnabledMissing"
  /\ Len(templatesArray) = 1
  /\ ~stored.isNull
  /\ mergedTileCache # EmptyCache

\* C39: when the palette has a searchable entry, the entry at the position
\* #nearestPaletteIndex returns for the color of the pixel has the rgb
\* #nearestPaletteRGB returns for it; for a converted colored pixel the entry
\* at the index of the index grid has the rgb of the mapped buffer.
C39_IndexNamesMappedColor ==
  (pix.pc \in {"src", "done"} /\ Searchable(pix.palette) # {}) =>
    LET q == SubSeq(pix.src, 1, 3)
    IN /\ pix.palette[nearestPaletteIndex(pix.palette, q) + 1].rgb
            = nearestPaletteRGB(pix.palette, q)
       /\ (pix.pc = "done" /\ q # <<222, 250, 206>> /\ pix.src[4] # 0) =>
            pix.palette[pix.idx + 1].rgb = SubSeq(pix.mapped, 1, 3)

\* C39 witness: in the palette Transparent, Red, White, Blue a light pixel
\* was converted: the index grid holds 2 and the mapped buffer white, the
\* rgb of the entry at position 2.
C39_Witness ==
  /\ pix.pc = "done"
  /\ Len(pix.palette) = 4
  /\ pix.palette[2].name = "Red" /\ pix.palette[3].name = "White"
  /\ pix.palette[4].name = "Blue"
  /\ pix.src = <<245, 245, 245, 255>>
  /\ pix.idx = 2
  /\ pix.mapped = <<255, 255, 255, 255>>

\* C38: every iteration of the slicing loops cuts a region at least 1 wide
\* and 1 high and moves pixelX right by its width or, at the end of a row,
\* pixelY down by its height; and every run of createTemplateTiles ends.
C38_SlicingTerminates ==
  /\ [][slice.pc = "run" =>
          LET r == slice'.regions[Len(slice'.regions)]
          IN /\ Len(slice'.regions) = Len(slice.regions) + 1
             /\ r.w >= 1 /\ r.h >= 1
             /\ \/ slice'.pixelX = slice.pixelX + r.w /\ slice'.pixelY = slice.pixelY
                \/ slice'.pixelY = slice.pixelY + r.h /\ slice'.pixelX = slice.coords[1]]_vars
  /\ <>(slice.pc = "done")

\* C38 witness: the longest run of the bounds has ended: an image of the
\* largest size cut with tileSize 1 into one region per pixel.
C38_Witness ==
  /\ slice.pc = "done"
  /\ slice.tileSize = 1
  /\ slice.W = MaxSide /\ slice.H = MaxSide
  /\ Len(slice.regions) = MaxSide * MaxSide

\* The tile keys of the regions the run has cut
RegionKeys == {slice.regions[i].key : i \in 1..Len(slice.regions)}

\* C37: between the iterations and when createTemplateTiles has ended, the
\* four bitmap maps, the buffer map and colorIndexTiles have the same keys,
\* the keys of the regions cut, as many as there are regions.
C37_MapsShareKeys ==
  slice.pc \in {"run", "done"} =>
    /\ slice.maps.templateTiles = RegionKeys
    /\ slice.maps.templateTilesAuto = RegionKeys
    /\ slice.maps.templateTilesFull = RegionKeys
    /\ slice.maps.templateTilesAutoFull = RegionKeys
    /\ slice.maps.templateTilesBuffers = RegionKeys
    /\ slice.maps.colorIndexTiles = RegionKeys
    /\ Cardinality(RegionKeys) = Len(slice.regions)

\* C37 witness: a run over two tiles has ended with four regions, and
\* colorIndexTiles and the buffer map have four keys each.
C37_Witness ==
  /\ slice.pc = "done"
  /\ Len(slice.regions) = 4
  /\ slice.regions[1].key[1] # slice.regions[2].key[1]
  /\ Cardinality(slice.maps.colorIndexTiles) = 4
  /\ Cardinality(slice.maps.templateTilesBuffers) = 4

\* The chunk bitmap of a region of one pixel as it is persisted and decoded
\* again by importJSON: the block whose center is the pixel of the original
\* buffer
PersistedBitmap(orig) == MaskedBitmap(1, <<orig>>)

\* C36: for a converted pixel, the index grid rebuilt lazily from the
\* persisted masked bitmap of the region holds the index that slicing stored
\* in the index grid, with the same palette.
C36_LazyGridEqualsSlicedGrid ==
  (pix.pc = "done" /\ pix.palette = LazyPalette) =>
    LazyGrid(PersistedBitmap(pix.orig)).data[1] = pix.idx

\* C36 restricted to the pixels that are not #DEFACE at an even position:
\* for those the rebuilt index is the sliced one.
C36_EqualExceptSentinel ==
  (pix.pc = "done" /\ pix.palette = LazyPalette
     /\ ~(SubSeq(pix.src, 1, 3) = <<222, 250, 206>> /\ (pix.x + pix.y) % 2 = 0)) =>
    LazyGrid(PersistedBitmap(pix.orig)).data[1] = pix.idx

\* A colored pixel was converted with the palette of the lookups and its
\* rebuilt index is the sliced one, 2 for a light pixel
C36_ColoredAgrees ==
  /\ pix.pc = "done" /\ pix.palette = LazyPalette
  /\ pix.src = <<245, 245, 245, 128>>
  /\ pix.idx = 2
  /\ LazyGrid(PersistedBitmap(pix.orig)).data[1] = 2

C32_CacheKeysCurrent ==
  \A k \in DOMAIN mergedTileCache : k.v = cacheVersion

\* ------------------------------------------- persist / import round trip
\* The calls of a session that only creates and removes templates
NextRegistry ==
  \/ \E c \in CreateCalls, keys \in SlicedKeySets : Call(CreateCall(c, keys))
  \/ \E c \in CreateCalls : Resume(CreateAfterJSON(c))
  \/ \E c \in CreateCalls : Resume(CreateRegister(c))
  \/ \E c \in CreateCalls : Resume(CreateDecodeFail(c))
  \/ \E k \in KeyInputs : Call(RemoveTemplate(k))

SpecRegistry == Init /\ [][NextRegistry]_vars

\* #parseBlueMarble (lines 732-775) run to its end on a manager whose
\* templatesArray is `arr`, with no other call in between: the records are
\* visited in key order and pushed while there is room
RECURSIVE parseBlueMarble(_, _)
parseBlueMarble(records, arr) ==
  IF records = <<>> THEN arr
  ELSE parseBlueMarble(Tail(records),
                       IF Len(arr) >= maxTemplates THEN arr
                       ELSE Append(arr, ImportedTemplate(Head(records), arr)))

\* importJSON(json) on a fresh manager (main.js lines 300-305): the
\* templatesArray it ends with
FreshImport(json) ==
  IF json.isNull \/ ~validWhoami(json) THEN <<>>
  ELSE parseBlueMarble(json.templates, <<>>)

\* The idKeys in the order drawTemplateOnTile sorts the templates (line 287)
DrawOrder(arr) == [i \in 1..Len(SortBySortID(arr)) |-> SortBySortID(arr)[i].idKey]

\* idKey a comes before idKey b in the sequence of keys
Before(order, a, b) ==
  \E i, k \in 1..Len(order) : i < k /\ order[i] = a /\ order[k] = b

\* C33: when the templatesJSON written after a sequence of createTemplate
\* and removeTemplate calls is loaded by importJSON into a fresh manager,
\* every template gets the sortID it had before, and any two templates are
\* drawn in the same relative order as before.
C33_RoundTripKeepsSortID ==
  (\A c \in CreateCalls : create[c].pc = "idle") =>
    LET loaded == FreshImport(stored)
    IN /\ \A i \in 1..Len(templatesArray), k \in 1..Len(loaded) :
            loaded[k].idKey = templatesArray[i].idKey
              => loaded[k].sortID = templatesArray[i].sortID
       /\ \A i, k \in 1..Len(templatesArray) :
            LET a == templatesArray[i].idKey
                b == templatesArray[k].idKey
            IN (a # b /\ Before(DrawOrder(loaded), a, b))
                 => Before(DrawOrder(templatesArray), a, b)

\* ------------------------------------------------ registry and JSON keys
\* No createTemplate and no importJSON call is in flight
NoCallInFlight ==
  /\ \A c \in CreateCalls : create[c].pc = "idle"
  /\ import.pc = "idle"

\* The idKeys of the templates of templatesArray
ArrayKeys == {templatesArray[i].idKey : i \in 1..Len(templatesArray)}

\* Object.keys(templatesJSON.templates) as a set; none while templatesJSON
\* is undefined
JsonKeySet == Range(JsonKeys(templatesJSON))

\* The calls of the registry made one after the other: a call starts only
\* when no createTemplate and no importJSON call is in flight
NextSequential ==
  \/ \E c \in CreateCalls, keys \in SlicedKeySets :
       NoCallInFlight /\ Call(CreateCall(c, keys))
  \/ \E c \in CreateCalls : Resume(CreateAfterJSON(c))
  \/ \E c \in CreateCalls : Resume(CreateRegister(c))
  \/ \E c \in CreateCalls : Resume(CreateDecodeFail(c))
  \/ \E k \in KeyInputs, e \in BOOLEAN : NoCallInFlight /\ Call(SetTemplateEnabled(k, e))
  \/ \E k \in KeyInputs : NoCallInFlight /\ Call(RemoveTemplate(k))
  \/ \E json \in ImportDocs : NoCallInFlight /\ Call(ImportCall(json))
  \/ Resume(ImportPush)

SpecSequential == Init /\ [][NextSequential]_vars

\* C34: after any sequence of completed createTemplate, removeTemplate,
\* setTemplateEnabled and importJSON calls, the set of idKeys of the
\* templates in templatesArray equals the set of keys of
\* templatesJSON.templates.
C34_ArrayKeysAreJsonKeys == NoCallInFlight => ArrayKeys = JsonKeySet

====
